---- MODULE Spec2Model ----
(***************************************************************************)
(* Identity and access control of the POS backend: AuthService,            *)
(* UserService, JWTManager, PasswordManager and the repositories they      *)
(* call.  Time is counted in hours.                                        *)
(***************************************************************************)
EXTENDS Integers, Sequences, FiniteSets, TLC

VARIABLES
    now,         \* time.Now(), in hours since the service started
    jwtManager,  \* the JWTManager the services were built with
    users,       \* users table: user id -> row
    passwords,   \* passwords table: user id -> row
    accounts,    \* accounts table: a set of rows
    sessions,    \* sessions table: a set of rows
    nextID,      \* the next value of uuid.New() / generateUniqueID()
    issued,      \* tokens handed out to clients by Register and Login
    ghost,       \* history: what happened to each refresh token
    managed,     \* the Session objects the callers of SessionManager hold
    procs,       \* the calls in progress: where each is, and what it has read
    oauth,       \* OAuthManager: the providers added, the request last sent
    last         \* the last call a client watched: operation, arguments, result

vars == <<now, jwtManager, users, passwords, accounts, sessions, nextID, issued, ghost,
          managed, procs, oauth, last>>

----------------------------------------------------------------------------
\* Bounds of the model

MaxIDs == 2      \* values uuid.New() and generateUniqueID() still give

\* The instants the clock visits: the start, and the instant at which the
\* refresh tokens of the start expire (their access tokens have, by then).
Instants == {0, 168}

----------------------------------------------------------------------------
\* Values

Nil == "nil"
ErrInvalidCredentials == "invalid email or password"
ErrUserNotFound == "user not found"
ErrUserNotActive == "user account is not active"
ErrEmailAlreadyExists == "email already exists"
ErrInvalidToken == "invalid token"
ErrTokenExpired == "token expired"
ErrInsufficientRole == "insufficient role permissions"
ErrCannotUpdateOwnRole == "cannot update your own role"
ErrCannotDeactivateAdmin == "cannot deactivate admin user"
ErrUserProfileNotFound == "user profile not found"
ErrCannotDeleteOwnAccount == "cannot delete your own account"
ErrWrapped == "wrapped error"

RoleAdmin == "ADMIN"
RoleManager == "MANAGER"
RoleCashier == "CASHIER"
Roles == {RoleCashier, RoleManager, RoleAdmin}

AdminID == 1
AdminEmail == "admin@pos.local"
Emails == {AdminEmail, "a@x.com"}

\* Emails are unique: the users table holds no more rows than there are emails
UserIDs == 1..Cardinality(Emails)

\* Characters of the passwords the model uses
Uppercase == {"A", "B", "C", "D", "E", "F", "G", "H", "I", "J", "K", "L", "M",
              "N", "O", "P", "Q", "R", "S", "T", "U", "V", "W", "X", "Y", "Z"}
Lowercase == {"a", "b", "c", "d", "e", "f", "g", "h", "i", "j", "k", "l", "m",
              "n", "o", "p", "q", "r", "s", "t", "u", "v", "w", "x", "y", "z"}
Numbers == {"0", "1", "2", "3", "4", "5", "6", "7", "8", "9"}
SpecialChars == {"!", "@", "#", "$", "%", "^", "&", "*", "(", ")", "_", "+",
                 "-", "=", "[", "]", "{", "}", ";", "'", ":", "\"", "\\", "|",
                 ",", ".", "<", ">", "/", "?"}
NUL == "NUL"

\* Passwords the callers of the services use
PwSeed == <<"a", "d", "m", "i", "n", "1", "2", "3">>
PwA == <<"A", "b", "c", "1", "2", "3", "4", "5", "!">>
ServicePasswords == {PwSeed, PwA}

----------------------------------------------------------------------------
\* golang.org/x/crypto/bcrypt

BcryptMaxLen == 72

Min(a, b) == IF a < b THEN a ELSE b

\* The key schedule (18 words of the P-array) reads 72 bytes of the password
\* followed by a zero byte: what it reads of a longer password is its first
\* 72 bytes.
BcryptKey(password) ==
    LET ckey == Append(password, NUL)
    IN SubSeq(ckey, 1, Min(Len(ckey), BcryptMaxLen))

NoHash == [digest |-> <<>>]

\* rejectsLong: whether this build's bcrypt returns ErrPasswordTooLong for a
\* password of more than 72 bytes (x/crypto from v0.5.0 on) or hashes its
\* first 72 bytes (before).
GenerateFromPassword(password, rejectsLong) ==
    IF rejectsLong /\ Len(password) > BcryptMaxLen
    THEN [err |-> "bcrypt: password length exceeds 72 bytes", hash |-> NoHash]
    ELSE [err |-> Nil, hash |-> [digest |-> BcryptKey(password)]]

\* The builds that differ on a password: those that reject and those that cut
\* one of more than 72 bytes; one stands for all on a shorter password
Builds(password) == IF Len(password) > BcryptMaxLen THEN BOOLEAN ELSE {TRUE}

CompareHashAndPassword(hash, password) ==
    IF hash.digest = BcryptKey(password)
    THEN Nil
    ELSE "crypto/bcrypt: hashedPassword is not the hash of the given password"

----------------------------------------------------------------------------
\* PasswordManager

MinPasswordLen == 8
MaxPasswordLen == 128

HasAny(password, class) == \E i \in 1..Len(password) : password[i] \in class

\* ValidatePassword as its second message reads: 128 characters are too many
ValidatePasswordBelowMax(password) ==
    IF Len(password) < MinPasswordLen
    THEN "password must be at least 8 characters long"
    ELSE IF Len(password) >= MaxPasswordLen
    THEN "password must be less than 128 characters long"
    ELSE IF ~HasAny(password, Uppercase)
    THEN "password must contain at least one uppercase letter"
    ELSE IF ~HasAny(password, Lowercase)
    THEN "password must contain at least one lowercase letter"
    ELSE IF ~HasAny(password, Numbers)
    THEN "password must contain at least one number"
    ELSE IF ~HasAny(password, SpecialChars)
    THEN "password must contain at least one special character"
    ELSE Nil

\* PasswordManager.ValidatePassword
ValidatePassword(password) ==
    IF Len(password) < MinPasswordLen
    THEN "password must be at least 8 characters long"
    ELSE IF Len(password) > MaxPasswordLen
    THEN "password must be less than 128 characters long"
    ELSE IF ~HasAny(password, Uppercase)
    THEN "password must contain at least one uppercase letter"
    ELSE IF ~HasAny(password, Lowercase)
    THEN "password must contain at least one lowercase letter"
    ELSE IF ~HasAny(password, Numbers)
    THEN "password must contain at least one number"
    ELSE IF ~HasAny(password, SpecialChars)
    THEN "password must contain at least one special character"
    ELSE Nil

\* PasswordManager.HashPassword
HashPassword(password, rejectsLong) ==
    IF ValidatePassword(password) # Nil
    THEN [err |-> ValidatePassword(password), hash |-> NoHash]
    ELSE GenerateFromPassword(password, rejectsLong)

\* PasswordManager.VerifyPassword
VerifyPassword(password, hash) == CompareHashAndPassword(hash, password)

\* The widths of int the program may be built with
IntBits == {32, 64}

Low24(bytes) == bytes[2] * 65536 + bytes[3] * 256 + bytes[4]

\* (bytes[0]<<24 | bytes[1]<<16 | bytes[2]<<8 | bytes[3]) % m of the four bytes
\* read as an unsigned number (bytes[k] of the code is bytes[k+1] here)
UnsignedMod(bytes, m) == (((bytes[1] % m) * (16777216 % m)) + (Low24(bytes) % m)) % m

\* randInt: with an int of 64 bits n is never negative. With an int of 32 bits
\* a first byte of 128 or more makes n negative, n = u - 2^32 for the unsigned
\* reading u; -n is 2^32 - u, except that -n of the least int, -2^31, is
\* -2^31 again, and % keeps the sign of n.
randInt(max, bytes, intBits) ==
    IF max <= 0 THEN 0
    ELSE IF intBits = 64 \/ bytes[1] < 128 THEN UnsignedMod(bytes, max)
    ELSE IF bytes = <<128, 0, 0, 0>>
    THEN 0 - (((65536 % max) * (32768 % max)) % max)
    ELSE (((((65536 % max) * (65536 % max)) % max) + max) - UnsignedMod(bytes, max)) % max

uppercase == <<"A", "B", "C", "D", "E", "F", "G", "H", "I", "J", "K", "L", "M",
               "N", "O", "P", "Q", "R", "S", "T", "U", "V", "W", "X", "Y", "Z">>
lowercase == <<"a", "b", "c", "d", "e", "f", "g", "h", "i", "j", "k", "l", "m",
               "n", "o", "p", "q", "r", "s", "t", "u", "v", "w", "x", "y", "z">>
numbers == <<"0", "1", "2", "3", "4", "5", "6", "7", "8", "9">>
special == <<"!", "@", "#", "$", "%", "^", "&", "*", "(", ")", "_", "+", "-",
             "=", "[", "]", "{", "}", "|", ";", ":", ",", ".", "<", ">", "?">>
allChars == uppercase \o lowercase \o numbers \o special

DefaultPasswordLen == 12

\* A random source: the four bytes of its k-th rand.Read
Draw(source, k) == IF source.counts THEN <<0, 0, 0, k>> ELSE source.bytes

\* The k-th call of randInt of one GenerateRandomPassword: the calls 1..4 seed
\* one character of each set, 5..length fill, the others shuffle from the
\* last index down
RandIntOf(length, source, intBits, k) ==
    LET max == IF k = 1 THEN Len(uppercase) ELSE IF k = 2 THEN Len(lowercase)
               ELSE IF k = 3 THEN Len(numbers) ELSE IF k = 4 THEN Len(special)
               ELSE IF k <= length THEN Len(allChars)
               ELSE (2 * length - k) + 1
    IN randInt(max, Draw(source, k), intBits)

Filled(length, source, intBits) ==
    [i \in 1..length |->
        LET n == RandIntOf(length, source, intBits, i)
        IN IF i = 1 THEN uppercase[n + 1] ELSE IF i = 2 THEN lowercase[n + 1]
           ELSE IF i = 3 THEN numbers[n + 1] ELSE IF i = 4 THEN special[n + 1]
           ELSE allChars[n + 1]]

\* password[i], password[j] = password[j], password[i] with j := randInt(i + 1):
\* the index (of the code, from 0) at which the swap found what it leaves at p
Swapped(p, length, source, intBits, i) ==
    LET j == RandIntOf(length, source, intBits, 2 * length - i)
    IN IF p = i THEN j ELSE IF p = j THEN i ELSE p

\* Where the swaps for i from hi down to lo found what they leave at p: the
\* last swap is undone first
RECURSIVE Origin(_, _, _, _, _, _)
Origin(p, length, source, intBits, lo, hi) ==
    IF hi < lo THEN p
    ELSE IF hi = lo THEN Swapped(p, length, source, intBits, lo)
    ELSE LET mid == (hi + lo) \div 2
             q == Origin(p, length, source, intBits, lo, mid)
         IN IF q < 0 THEN q
            ELSE Origin(q, length, source, intBits, mid + 1, hi)

\* The loop of swaps for i from the last index down to 1
Shuffle(password, length, source, intBits) ==
    [p \in 1..length |->
        password[Origin(p - 1, length, source, intBits, 1, length - 1) + 1]]

\* PasswordManager.GenerateRandomPassword; an index below 0 is a run-time panic
GenerateRandomPassword(length, source, intBits) ==
    LET n == IF length < MinPasswordLen THEN DefaultPasswordLen ELSE length
    IN IF \E k \in 1..(2 * n - 1) : RandIntOf(n, source, intBits, k) < 0
       THEN [err |-> "panic: runtime error: index out of range", password |-> <<>>]
       ELSE [err |-> Nil,
             password |-> Shuffle(Filled(n, source, intBits), n, source, intBits)]

----------------------------------------------------------------------------
\* JWTManager

HoursPerDay == 24
SecretKey == "test-secret-key"
AttackerKey == "another-key"

\* The configurations the services are built with: <<accessTTLHours, refreshTTLDays>>
JWTConfigs == {<<1, 7>>}

NewJWTManager(secretKey, accessTTLHours, refreshTTLDays) ==
    [secretKey |-> secretKey,
     accessTokenTTL |-> accessTTLHours,
     refreshTokenTTL |-> refreshTTLDays * HoursPerDay]

\* token.SignedString(key): the claims, the algorithm and the key that signed
SignedString(claims, key) == [claims |-> claims, alg |-> "HS256", key |-> key]

GenerateAccessToken(userID, email, role, name, tokenID) ==
    SignedString([UserID |-> userID, Email |-> email, Role |-> role, Name |-> name,
                  TokenType |-> "access", ID |-> tokenID,
                  ExpiresAt |-> now + jwtManager.accessTokenTTL,
                  IssuedAt |-> now, NotBefore |-> now],
                 jwtManager.secretKey)

GenerateRefreshToken(userID, email, tokenID) ==
    SignedString([UserID |-> userID, Email |-> email, Role |-> "", Name |-> "",
                  TokenType |-> "refresh", ID |-> tokenID,
                  ExpiresAt |-> now + jwtManager.refreshTokenTTL,
                  IssuedAt |-> now, NotBefore |-> now],
                 jwtManager.secretKey)

\* jwt.ParseWithClaims with the key function of ValidateToken: the signing
\* method is HMAC, the signature verifies under the manager's key, and the
\* registered claims validate (now < exp, now >= nbf).
ParseWithClaims(token) ==
    IF token.alg # "HS256" THEN "invalid token signing method"
    ELSE IF token.key # jwtManager.secretKey THEN "signature is invalid"
    ELSE IF ~(now < token.claims.ExpiresAt) THEN "token is expired"
    ELSE IF now < token.claims.NotBefore THEN "token is not valid yet"
    ELSE Nil

ValidateTokenByOwnCheck(token) ==
    IF token.alg # "HS256" \/ token.key # jwtManager.secretKey
    THEN [err |-> "signature is invalid"]
    ELSE IF token.claims.ExpiresAt < now
    THEN [err |-> "token has expired"]
    ELSE [err |-> Nil]

\* JWTManager.ValidateToken
ValidateToken(token) ==
    IF ParseWithClaims(token) # Nil
    THEN [err |-> ParseWithClaims(token)]
    ELSE IF token.claims.ExpiresAt < now
    THEN [err |-> "token has expired"]
    ELSE [err |-> Nil]

\* JWTManager.ValidateAccessToken
ValidateAccessToken(token) ==
    IF ValidateToken(token).err # Nil THEN ValidateToken(token)
    ELSE IF token.claims.TokenType # "access"
    THEN [err |-> "invalid token type, expected access token"]
    ELSE [err |-> Nil]

ValidateRefreshTokenOfAnyType(token) == ValidateToken(token)

\* JWTManager.ValidateRefreshToken
ValidateRefreshToken(token) ==
    IF ValidateToken(token).err # Nil THEN ValidateToken(token)
    ELSE IF token.claims.TokenType # "refresh"
    THEN [err |-> "invalid token type, expected refresh token"]
    ELSE [err |-> Nil]

----------------------------------------------------------------------------
\* Repositories

\* UserRepository.GetByEmail: the ids of the rows with this email
GetByEmail(email) == {id \in DOMAIN users : users[id].Email = email}

\* SessionRepository.GetByToken: the rows with this session token
GetByToken(token) == {s \in sessions : s.SessionToken = token}

\* SessionRepository.GetByUserID: the rows of this user
GetByUserID(userID) == {s \in sessions : s.UserID = userID}

\* SessionRepository.Create: the token column is unique
SessionCreate(table, session) ==
    IF \E s \in table : s.SessionToken = session.SessionToken \/ s.ID = session.ID
    THEN [err |-> "duplicate key", sessions |-> table]
    ELSE [err |-> Nil, sessions |-> table \cup {session}]

\* SessionRepository.Delete: removes the row with this id, if there is one
SessionDelete(table, id) == {s \in table : s.ID # id}

\* SessionRepository.RevokeAllUserSessions: sets active=false on the user's rows
SessionRevokeAllUserSessions(table, userID) ==
    {IF s.UserID = userID THEN [s EXCEPT !.IsActive = FALSE] ELSE s : s \in table}

\* UserRepository.UpdateLastLogin
UpdateLastLogin(table, id) == [table EXCEPT ![id].LastLoginAt = now]

\* UserRepository.SetActiveStatus
SetActiveStatus(table, id, isActive) == [table EXCEPT ![id].IsActive = isActive]

SessionDays == 30

NewSession(id, userID, refreshToken) ==
    [ID |-> id, UserID |-> userID, SessionToken |-> refreshToken,
     ExpiresAt |-> now + HoursPerDay * SessionDays, IsActive |-> TRUE]

----------------------------------------------------------------------------
\* AuthService

NoToken == "none"

\* What a handler leaves behind: its error, the tables, and its response
Result(err, u, p, a, s, out) ==
    [err |-> err, users |-> u, passwords |-> p, accounts |-> a, sessions |-> s,
     out |-> out]

Fail(err) == Result(err, users, passwords, accounts, sessions, NoToken)

\* AuthService.Login, once the users row of the email is found
LoginFound(id, password) ==
    LET user == users[id] IN
    IF ~user.IsActive THEN Fail(ErrUserNotActive)
    ELSE IF id \notin DOMAIN passwords THEN Fail(ErrInvalidCredentials)
    ELSE IF CompareHashAndPassword(passwords[id].HashedPassword, password) # Nil
    THEN Fail(ErrInvalidCredentials)
    ELSE
      LET loggedIn == UpdateLastLogin(users, id)
          accessToken == GenerateAccessToken(id, user.Email, user.Role, user.Name, nextID)
          refreshToken == GenerateRefreshToken(id, user.Email, nextID)
          created == SessionCreate(sessions, NewSession(nextID, id, refreshToken))
      IN
      IF created.err # Nil
      THEN Result(ErrWrapped, loggedIn, passwords, accounts, sessions, NoToken)
      ELSE Result(Nil, loggedIn, passwords, accounts, created.sessions,
                  [AccessToken |-> accessToken, RefreshToken |-> refreshToken,
                   User |-> user])

LoginTellsUnknownEmail(email, password) ==
    IF GetByEmail(email) = {} THEN Fail(ErrUserNotFound)
    ELSE LoginFound(CHOOSE i \in GetByEmail(email) : TRUE, password)

\* AuthService.Login
LoginOutcome(email, password) ==
    IF GetByEmail(email) = {} THEN Fail(ErrInvalidCredentials)
    ELSE LoginFound(CHOOSE i \in GetByEmail(email) : TRUE, password)

\* What a caller sees of a call
Call(op, args, r) == [op |-> op, args |-> args, err |-> r.err, out |-> r.out]

\* The tables after a call of a service; the services hold no Session object
\* of SessionManager
Apply(r) ==
    /\ users' = r.users
    /\ passwords' = r.passwords
    /\ accounts' = r.accounts
    /\ sessions' = r.sessions
    /\ UNCHANGED <<managed, procs, oauth>>

Login(email, password) ==
    LET r == LoginOutcome(email, password) IN
    /\ r.err = Nil => nextID <= MaxIDs
    /\ Apply(r)
    /\ nextID' = IF r.err = Nil THEN nextID + 1 ELSE nextID
    /\ issued' = IF r.err = Nil
                 THEN issued \cup {r.out.AccessToken, r.out.RefreshToken}
                 ELSE issued
    /\ UNCHANGED <<now, jwtManager, ghost>>

\* The id uuid.New() gives a new users row
NewUserID == CHOOSE i \in UserIDs \ DOMAIN users : \A j \in UserIDs \ DOMAIN users : i <= j

\* Register with its session row keyed by the access token
RegisterKeysSessionByAccessToken(email, name, password, rejectsLong) ==
    IF GetByEmail(email) # {} THEN Fail(ErrEmailAlreadyExists)
    ELSE
      LET id == NewUserID
          user == [Email |-> email, Name |-> name, Role |-> RoleCashier,
                   IsActive |-> TRUE, LastLoginAt |-> -1]
          created == id :> user @@ users
          hashed == GenerateFromPassword(password, rejectsLong)
      IN
      IF hashed.err # Nil
      THEN Result(ErrWrapped, created, passwords, accounts, sessions, NoToken)
      ELSE
        LET pws == id :> [HashedPassword |-> hashed.hash] @@ passwords
            accs == accounts \cup {[UserID |-> id, Type |-> "email", Provider |-> "email",
                                    ProviderAccountID |-> email]}
            accessToken == GenerateAccessToken(id, user.Email, user.Role, user.Name, nextID)
            refreshToken == GenerateRefreshToken(id, user.Email, nextID)
            session == SessionCreate(sessions, NewSession(nextID, id, accessToken))
        IN
        IF session.err # Nil
        THEN Result(ErrWrapped, created, pws, accs, sessions, NoToken)
        ELSE Result(Nil, created, pws, accs, session.sessions,
                    [AccessToken |-> accessToken, RefreshToken |-> refreshToken,
                     User |-> user])

\* AuthService.Register
RegisterOutcome(email, name, password, rejectsLong) ==
    IF GetByEmail(email) # {} THEN Fail(ErrEmailAlreadyExists)
    ELSE
      LET id == NewUserID
          user == [Email |-> email, Name |-> name, Role |-> RoleCashier,
                   IsActive |-> TRUE, LastLoginAt |-> -1]
          created == id :> user @@ users
          hashed == GenerateFromPassword(password, rejectsLong)
      IN
      IF hashed.err # Nil
      THEN Result(ErrWrapped, created, passwords, accounts, sessions, NoToken)
      ELSE
        LET pws == id :> [HashedPassword |-> hashed.hash] @@ passwords
            accs == accounts \cup {[UserID |-> id, Type |-> "email", Provider |-> "email",
                                    ProviderAccountID |-> email]}
            accessToken == GenerateAccessToken(id, user.Email, user.Role, user.Name, nextID)
            refreshToken == GenerateRefreshToken(id, user.Email, nextID)
            session == SessionCreate(sessions, NewSession(nextID, id, refreshToken))
        IN
        IF session.err # Nil
        THEN Result(ErrWrapped, created, pws, accs, sessions, NoToken)
        ELSE Result(Nil, created, pws, accs, session.sessions,
                    [AccessToken |-> accessToken, RefreshToken |-> refreshToken,
                     User |-> user])

Register(email, name, password, rejectsLong) ==
    LET r == RegisterOutcome(email, name, password, rejectsLong) IN
    /\ GetByEmail(email) = {} => DOMAIN users # UserIDs
    /\ r.err = Nil => nextID <= MaxIDs
    /\ Apply(r)
    /\ nextID' = IF r.err = Nil THEN nextID + 1 ELSE nextID
    /\ issued' = IF r.err = Nil
                 THEN issued \cup {r.out.AccessToken, r.out.RefreshToken}
                 ELSE issued
    /\ UNCHANGED <<now, jwtManager, ghost>>

\* AuthService.RefreshToken
RefreshTokenOutcome(refreshToken) ==
    IF ValidateRefreshToken(refreshToken).err # Nil THEN Fail(ErrInvalidToken)
    ELSE
      LET userID == refreshToken.claims.UserID IN
      IF userID \notin DOMAIN users THEN Fail(ErrUserNotFound)
      ELSE IF ~users[userID].IsActive THEN Fail(ErrUserNotActive)
      ELSE IF GetByToken(refreshToken) = {} THEN Fail(ErrInvalidToken)
      ELSE
        LET session == CHOOSE s \in GetByToken(refreshToken) : TRUE
            user == users[userID]
        IN
        IF session.ExpiresAt < now
        THEN Result(ErrTokenExpired, users, passwords, accounts,
                    SessionDelete(sessions, session.ID), NoToken)
        ELSE Result(Nil, users, passwords, accounts, sessions,
                    [AccessToken |->
                        GenerateAccessToken(userID, user.Email, user.Role, user.Name, nextID)])

RefreshToken(refreshToken) ==
    LET r == RefreshTokenOutcome(refreshToken) IN
    /\ r.err = Nil => nextID <= MaxIDs
    /\ Apply(r)
    /\ nextID' = IF r.err = Nil THEN nextID + 1 ELSE nextID
    /\ UNCHANGED <<now, jwtManager, issued, ghost>>

LogoutMarksInactive(refreshToken) ==
    Result(Nil, users, passwords, accounts,
           {IF s.SessionToken = refreshToken THEN [s EXCEPT !.IsActive = FALSE] ELSE s :
              s \in sessions},
           NoToken)

LogoutEndsAllOfUser(refreshToken) ==
    IF GetByToken(refreshToken) = {} THEN Fail(Nil)
    ELSE
      LET session == CHOOSE s \in GetByToken(refreshToken) : TRUE IN
      Result(Nil, users, passwords, accounts,
             {s \in sessions : s.UserID # session.UserID}, NoToken)

\* The refresh tokens Register and Login gave out, and those they gave a user
RefreshTokens == {t \in issued : t.claims.TokenType = "refresh"}

RefreshTokensOf(userID) == {t \in RefreshTokens : t.claims.UserID = userID}

\* Logout that refuses a token without a session
LogoutRejectsUnknownToken(refreshToken) ==
    IF GetByToken(refreshToken) = {} THEN Fail(ErrInvalidToken)
    ELSE
      LET session == CHOOSE s \in GetByToken(refreshToken) : TRUE IN
      Result(Nil, users, passwords, accounts, SessionDelete(sessions, session.ID), NoToken)

\* AuthService.Logout
LogoutOutcome(refreshToken) ==
    IF GetByToken(refreshToken) = {} THEN Fail(Nil)
    ELSE
      LET session == CHOOSE s \in GetByToken(refreshToken) : TRUE IN
      Result(Nil, users, passwords, accounts, SessionDelete(sessions, session.ID), NoToken)

Logout(refreshToken) ==
    LET r == LogoutOutcome(refreshToken) IN
    /\ Apply(r)
    /\ ghost' = [ghost EXCEPT
                   !.loggedOut = @ \cup ({refreshToken} \cap RefreshTokens),
                   !.revoked = @ \cup {s.SessionToken : s \in sessions \ r.sessions}]
    /\ UNCHANGED <<now, jwtManager, nextID, issued>>

\* GetUserFromToken that asks for an active session of the user
GetUserFromTokenNeedsSession(token) ==
    IF ValidateAccessToken(token).err # Nil THEN Fail(ErrInvalidToken)
    ELSE
      LET userID == token.claims.UserID IN
      IF userID \notin DOMAIN users THEN Fail(ErrUserNotFound)
      ELSE IF ~users[userID].IsActive THEN Fail(ErrUserNotActive)
      ELSE IF \A s \in GetByUserID(userID) : ~s.IsActive THEN Fail(ErrInvalidToken)
      ELSE Result(Nil, users, passwords, accounts, sessions, users[userID])

\* AuthService.GetUserFromToken
GetUserFromTokenOutcome(token) ==
    IF ValidateAccessToken(token).err # Nil THEN Fail(ErrInvalidToken)
    ELSE
      LET userID == token.claims.UserID IN
      IF userID \notin DOMAIN users THEN Fail(ErrUserNotFound)
      ELSE IF ~users[userID].IsActive THEN Fail(ErrUserNotActive)
      ELSE Result(Nil, users, passwords, accounts, sessions, users[userID])

GetUserFromToken(token) ==
    LET r == GetUserFromTokenOutcome(token) IN
    /\ Apply(r)
    /\ UNCHANGED <<now, jwtManager, nextID, issued, ghost>>

\* The loop of ChangePassword over the user's sessions: deletes each
RECURSIVE DeleteEach(_, _)
DeleteEach(table, rows) ==
    IF rows = {} THEN table
    ELSE LET s == CHOOSE x \in rows : TRUE
         IN DeleteEach(SessionDelete(table, s.ID), rows \ {s})

ChangePasswordKeepsSessions(userID, currentPassword, newPassword, rejectsLong) ==
    IF userID \notin DOMAIN passwords THEN Fail(ErrWrapped)
    ELSE IF CompareHashAndPassword(passwords[userID].HashedPassword, currentPassword) # Nil
    THEN Fail(ErrInvalidCredentials)
    ELSE
      LET hashed == GenerateFromPassword(newPassword, rejectsLong) IN
      IF hashed.err # Nil THEN Fail(ErrWrapped)
      ELSE Result(Nil, users,
                  [passwords EXCEPT ![userID].HashedPassword = hashed.hash],
                  accounts, sessions, NoToken)

\* ChangePassword that ends the user's sessions before it verifies the current
\* password
ChangePasswordEndsSessionsFirst(userID, currentPassword, newPassword, rejectsLong) ==
    IF userID \notin DOMAIN passwords THEN Fail(ErrWrapped)
    ELSE IF CompareHashAndPassword(passwords[userID].HashedPassword, currentPassword) # Nil
    THEN Result(ErrInvalidCredentials, users, passwords, accounts,
                DeleteEach(sessions, GetByUserID(userID)), NoToken)
    ELSE
      LET hashed == GenerateFromPassword(newPassword, rejectsLong) IN
      IF hashed.err # Nil THEN Fail(ErrWrapped)
      ELSE Result(Nil, users,
                  [passwords EXCEPT ![userID].HashedPassword = hashed.hash],
                  accounts, DeleteEach(sessions, GetByUserID(userID)), NoToken)

\* AuthService.ChangePassword
ChangePasswordOutcome(userID, currentPassword, newPassword, rejectsLong) ==
    IF userID \notin DOMAIN passwords THEN Fail(ErrWrapped)
    ELSE IF CompareHashAndPassword(passwords[userID].HashedPassword, currentPassword) # Nil
    THEN Fail(ErrInvalidCredentials)
    ELSE
      LET hashed == GenerateFromPassword(newPassword, rejectsLong) IN
      IF hashed.err # Nil THEN Fail(ErrWrapped)
      ELSE Result(Nil, users,
                  [passwords EXCEPT ![userID].HashedPassword = hashed.hash],
                  accounts, DeleteEach(sessions, GetByUserID(userID)), NoToken)


ChangePassword(userID, currentPassword, newPassword, rejectsLong) ==
    LET r == ChangePasswordOutcome(userID, currentPassword, newPassword, rejectsLong) IN
    /\ Apply(r)
    /\ ghost' = IF r.err = Nil
                THEN [ghost EXCEPT !.superseded = @ \cup RefreshTokensOf(userID)]
                ELSE ghost
    /\ UNCHANGED <<now, jwtManager, nextID, issued>>

\* The roleHierarchy map of ValidateRole; a role it lacks reads as zero
RoleHierarchy(role) ==
    CASE role = RoleCashier -> 1
      [] role = RoleManager -> 2
      [] role = RoleAdmin -> 3
      [] OTHER -> 0

ValidateRoleStrictlyAbove(userRole, requiredRole) ==
    IF RoleHierarchy(userRole) <= RoleHierarchy(requiredRole)
    THEN ErrInsufficientRole
    ELSE Nil

\* AuthService.ValidateRole
ValidateRole(userRole, requiredRole) ==
    IF RoleHierarchy(userRole) < RoleHierarchy(requiredRole)
    THEN ErrInsufficientRole
    ELSE Nil

\* User.IsAdmin, User.IsManager, User.IsCashier, of a user with this role
IsAdmin(role) == role = RoleAdmin

IsManager(role) == role = RoleAdmin \/ role = RoleManager

IsCashier(role) == role = RoleAdmin \/ role = RoleManager \/ role = RoleCashier

\* User.CanAccessResource, of a user with this role
CanAccessResource(role, requiredRole) ==
    CASE requiredRole = RoleAdmin -> IsAdmin(role)
      [] requiredRole = RoleManager -> IsManager(role)
      [] requiredRole = RoleCashier -> IsCashier(role)
      [] OTHER -> FALSE

----------------------------------------------------------------------------
\* UserService

\* The tokens of the sessions rows a handler revoked: removed, or set inactive
RevokedBy(r) == {s.SessionToken : s \in sessions \ r.sessions}

\* UserService.RevokeUserSession
RevokeUserSessionOutcome(requestorID, sessionID) ==
    IF requestorID \notin DOMAIN users THEN Fail(ErrWrapped)
    ELSE IF users[requestorID].Role # RoleAdmin THEN Fail(ErrInsufficientRole)
    ELSE Result(Nil, users, passwords, accounts, SessionDelete(sessions, sessionID), NoToken)

RevokeUserSession(requestorID, sessionID) ==
    LET r == RevokeUserSessionOutcome(requestorID, sessionID) IN
    /\ Apply(r)
    /\ ghost' = [ghost EXCEPT !.revoked = @ \cup RevokedBy(r)]
    /\ UNCHANGED <<now, jwtManager, nextID, issued>>

\* UserService.RevokeAllUserSessions
RevokeAllUserSessionsOutcome(requestorID, targetUserID) ==
    IF requestorID # targetUserID /\ requestorID \notin DOMAIN users THEN Fail(ErrWrapped)
    ELSE IF requestorID # targetUserID /\ users[requestorID].Role # RoleAdmin
    THEN Fail(ErrInsufficientRole)
    ELSE Result(Nil, users, passwords, accounts,
                SessionRevokeAllUserSessions(sessions, targetUserID), NoToken)

RevokeAllUserSessions(requestorID, targetUserID) ==
    LET r == RevokeAllUserSessionsOutcome(requestorID, targetUserID) IN
    /\ Apply(r)
    /\ ghost' = [ghost EXCEPT !.revoked = @ \cup RevokedBy(r)]
    /\ UNCHANGED <<now, jwtManager, nextID, issued>>

\* Deactivation that leaves the session rows as they are
DeactivateKeepsSessions(requestorID, targetUserID) ==
    IF requestorID \notin DOMAIN users THEN Fail(ErrWrapped)
    ELSE IF users[requestorID].Role # RoleAdmin THEN Fail(ErrInsufficientRole)
    ELSE IF targetUserID \notin DOMAIN users THEN Fail(ErrUserProfileNotFound)
    ELSE IF users[targetUserID].Role = RoleAdmin THEN Fail(ErrCannotDeactivateAdmin)
    ELSE Result(Nil, SetActiveStatus(users, targetUserID, FALSE), passwords, accounts,
                sessions, NoToken)

\* UserService.DeactivateUser
DeactivateUserOutcome(requestorID, targetUserID) ==
    IF requestorID \notin DOMAIN users THEN Fail(ErrWrapped)
    ELSE IF users[requestorID].Role # RoleAdmin THEN Fail(ErrInsufficientRole)
    ELSE IF targetUserID \notin DOMAIN users THEN Fail(ErrUserProfileNotFound)
    ELSE IF users[targetUserID].Role = RoleAdmin THEN Fail(ErrCannotDeactivateAdmin)
    ELSE Result(Nil, SetActiveStatus(users, targetUserID, FALSE), passwords, accounts,
                SessionRevokeAllUserSessions(sessions, targetUserID), NoToken)

DeactivateUser(requestorID, targetUserID) ==
    LET r == DeactivateUserOutcome(requestorID, targetUserID) IN
    /\ Apply(r)
    /\ ghost' = [ghost EXCEPT !.revoked = @ \cup RevokedBy(r)]
    /\ UNCHANGED <<now, jwtManager, nextID, issued>>

\* UserService.ActivateUser
ActivateUserOutcome(requestorID, targetUserID) ==
    IF requestorID \notin DOMAIN users THEN Fail(ErrWrapped)
    ELSE IF users[requestorID].Role # RoleAdmin THEN Fail(ErrInsufficientRole)
    ELSE IF targetUserID \notin DOMAIN users THEN Fail(ErrUserProfileNotFound)
    ELSE Result(Nil, SetActiveStatus(users, targetUserID, TRUE), passwords, accounts,
                sessions, NoToken)

ActivateUser(requestorID, targetUserID) ==
    LET r == ActivateUserOutcome(requestorID, targetUserID) IN
    /\ Apply(r)
    /\ UNCHANGED <<now, jwtManager, nextID, issued, ghost>>

\* UserRepository.UpdateRole
UserUpdateRole(table, id, role) == [table EXCEPT ![id].Role = role]

\* UserService.UpdateUserRole
UpdateUserRoleOutcome(requestorID, targetUserID, role) ==
    IF requestorID \notin DOMAIN users THEN Fail(ErrWrapped)
    ELSE IF users[requestorID].Role # RoleAdmin THEN Fail(ErrInsufficientRole)
    ELSE IF requestorID = targetUserID THEN Fail(ErrCannotUpdateOwnRole)
    ELSE IF targetUserID \notin DOMAIN users THEN Fail(ErrUserProfileNotFound)
    ELSE Result(Nil, UserUpdateRole(users, targetUserID, role), passwords, accounts,
                sessions, NoToken)

UpdateUserRole(requestorID, targetUserID, role) ==
    LET r == UpdateUserRoleOutcome(requestorID, targetUserID, role) IN
    /\ Apply(r)
    /\ UNCHANGED <<now, jwtManager, nextID, issued, ghost>>

\* UserRepository.Delete: the row is no longer found
UserDelete(table, id) == [i \in DOMAIN table \ {id} |-> table[i]]

\* UserRepository.Update: saves the row
UserUpdate(table, id, user) == [table EXCEPT ![id] = user]

\* A field of UpdateUserRequest: a pointer, nil ({}) or to a value ({v})
Deref(field) == CHOOSE v \in field : TRUE

\* UserService.UpdateUser: the row is saved only when a field changed, and the
\* sessions are revoked, within that branch, whenever the request says inactive
UpdateUserOutcome(requestorID, targetUserID, req) ==
    IF requestorID \notin DOMAIN users THEN Fail(ErrWrapped)
    ELSE IF users[requestorID].Role # RoleAdmin THEN Fail(ErrInsufficientRole)
    ELSE IF targetUserID \notin DOMAIN users THEN Fail(ErrUserProfileNotFound)
    ELSE
      LET user == users[targetUserID]
          newName == req.Name # {} /\ Deref(req.Name) # user.Name
          newActive == req.IsActive # {} /\ Deref(req.IsActive) # user.IsActive
          named == IF newName THEN [user EXCEPT !.Name = Deref(req.Name)] ELSE user
          updated == IF newActive THEN [named EXCEPT !.IsActive = Deref(req.IsActive)]
                     ELSE named
      IN
      IF newActive /\ user.Role = RoleAdmin /\ ~Deref(req.IsActive)
      THEN Fail(ErrCannotDeactivateAdmin)
      ELSE IF ~(newName \/ newActive)
      THEN Result(Nil, users, passwords, accounts, sessions, NoToken)
      ELSE Result(Nil, UserUpdate(users, targetUserID, updated), passwords, accounts,
                  IF req.IsActive = {FALSE}
                  THEN SessionRevokeAllUserSessions(sessions, targetUserID)
                  ELSE sessions,
                  NoToken)

UpdateUser(requestorID, targetUserID, req) ==
    LET r == UpdateUserOutcome(requestorID, targetUserID, req) IN
    /\ Apply(r)
    /\ ghost' = [ghost EXCEPT !.revoked = @ \cup RevokedBy(r)]
    /\ UNCHANGED <<now, jwtManager, nextID, issued>>

----------------------------------------------------------------------------
\* Calls of the stateless components: they leave the tables as they are

Answer(op, args, err, out) ==
    /\ last' = [op |-> op, args |-> args, err |-> err, out |-> out]
    /\ UNCHANGED <<now, jwtManager, users, passwords, accounts, sessions, nextID,
                   issued, ghost, managed, procs, oauth>>

CallValidateToken(token) ==
    Answer("ValidateToken", [token |-> token, now |-> now],
           ValidateToken(token).err, NoToken)

CallValidateAccessToken(token) ==
    Answer("ValidateAccessToken", [token |-> token, now |-> now],
           ValidateAccessToken(token).err, NoToken)

CallValidateRefreshToken(token) ==
    Answer("ValidateRefreshToken", [token |-> token, now |-> now],
           ValidateRefreshToken(token).err, NoToken)

CallValidateRole(userRole, requiredRole) ==
    Answer("ValidateRole", [userRole |-> userRole, requiredRole |-> requiredRole],
           ValidateRole(userRole, requiredRole), NoToken)

CallCanAccessResource(role, requiredRole) ==
    Answer("CanAccessResource", [role |-> role, requiredRole |-> requiredRole],
           Nil, CanAccessResource(role, requiredRole))

CallValidatePassword(password) ==
    Answer("ValidatePassword", [password |-> password], ValidatePassword(password), NoToken)

CallHashPassword(password, rejectsLong) ==
    Answer("HashPassword", [password |-> password],
           HashPassword(password, rejectsLong).err,
           HashPassword(password, rejectsLong).hash)

CallGenerateRandomPassword(length, source, intBits) ==
    Answer("GenerateRandomPassword", [length |-> length, source |-> source, intBits |-> intBits],
           GenerateRandomPassword(length, source, intBits).err,
           GenerateRandomPassword(length, source, intBits).password)

\* VerifyPassword(password, hash) with the hash HashPassword gave for `hashed`
CallVerifyPassword(password, hashed, rejectsLong) ==
    /\ HashPassword(hashed, rejectsLong).err = Nil
    /\ Answer("VerifyPassword", [password |-> password, hashed |-> hashed],
              VerifyPassword(password, HashPassword(hashed, rejectsLong).hash), NoToken)

----------------------------------------------------------------------------
\* SessionManager

\* NewSessionManager(sessionTTLHours): a day
sessionTTL == 24

\* A nil *Session
NilSession == [SessionToken |-> "", UserID |-> 0, ExpiresAt |-> 0, UpdatedAt |-> 0,
               IsActive |-> FALSE]

\* SessionManager.GenerateSession, with the token generateSecureToken gives
GenerateSession(userID, sessionToken) ==
    [SessionToken |-> sessionToken, UserID |-> userID, ExpiresAt |-> now + sessionTTL,
     UpdatedAt |-> now, IsActive |-> TRUE]

\* SessionManager.IsSessionValid
IsSessionValid(session) ==
    IF session = NilSession THEN FALSE
    ELSE session.IsActive /\ now < session.ExpiresAt

\* RefreshSession that makes the session active again
RefreshSessionReactivates(session) ==
    [session EXCEPT !.ExpiresAt = now + sessionTTL, !.UpdatedAt = now, !.IsActive = TRUE]

\* SessionManager.RefreshSession
RefreshSession(session) ==
    [session EXCEPT !.ExpiresAt = now + sessionTTL, !.UpdatedAt = now]

\* SessionManager.RevokeSession
RevokeSession(session) ==
    [session EXCEPT !.IsActive = FALSE, !.UpdatedAt = now]

\* The calls of SessionManager by a caller that holds the Session objects
Held == UNCHANGED <<now, jwtManager, users, passwords, accounts, sessions, issued, ghost,
                    procs, oauth>>

CallGenerateSession(userID) ==
    /\ nextID <= MaxIDs
    /\ managed' = managed \cup {GenerateSession(userID, <<"session", nextID>>)}
    /\ nextID' = nextID + 1
    /\ UNCHANGED last /\ Held

CallRefreshSession(session) ==
    /\ managed' = (managed \ {session}) \cup {RefreshSession(session)}
    /\ UNCHANGED <<nextID, last>> /\ Held

CallRevokeSession(session) ==
    /\ managed' = (managed \ {session}) \cup {RevokeSession(session)}
    /\ UNCHANGED <<nextID, last>> /\ Held

CallIsSessionValid(session) ==
    Answer("IsSessionValid", [session |-> session, now |-> now], Nil, IsSessionValid(session))

----------------------------------------------------------------------------
\* Inputs

\* What a client may present as a token: a token it was given, or the claims
\* of one with the other token type, signed with a key of its own
Forged(token) ==
    SignedString([token.claims EXCEPT
                    !.TokenType = IF @ = "access" THEN "refresh" ELSE "access"],
                 AttackerKey)

TokenInputs == issued \cup {Forged(t) : t \in issued}

SessionIDs == 1..MaxIDs

\* The calls that may be in progress at once
Procs == {1, 2}

\* No call in progress
Idle == [pc |-> "idle"]

RoleInputs == Roles \cup {""}

\* Role values of any kind: the three roles, none, and one nobody defined
AnyRoleInputs == RoleInputs \cup {"SUPERVISOR"}

\* prefix, then c up to length n
Pad(prefix, n, c) == [i \in 1..n |-> IF i <= Len(prefix) THEN prefix[i] ELSE c]

Strong == <<"A", "a", "1", "!">>

\* Passwords around the limits of the policy (8, 128) and of bcrypt (72)
\* Lengths asked of GenerateRandomPassword, around its default (below 8) and
\* the limits of the policy
LengthInputs == {0, 7, 8, 9, 16, 128, 129}

\* Random sources: ones that give the same four bytes at every read (the least
\* and greatest numbers, and those around the sign bit of 32 bits), and one
\* that counts its reads
RandomSources ==
    {[counts |-> FALSE, bytes |-> b] :
        b \in {<<0, 0, 0, 0>>, <<0, 0, 0, 1>>, <<127, 255, 255, 255>>, <<128, 0, 0, 0>>,
               <<128, 0, 0, 1>>, <<255, 255, 255, 255>>}}
    \cup {[counts |-> TRUE, bytes |-> <<>>]}

\* Passwords that break one rule of the policy each: no uppercase letter, no
\* lowercase letter, no number, no special character (none, and one the
\* expression of ValidatePassword does not list), too short, too long
OneRuleBroken ==
    {Pad(<<"a", "1", "!">>, 8, "x"), Pad(<<"A", "1", "!">>, 8, "X"),
     Pad(<<"A", "a", "!">>, 8, "x"), Pad(<<"A", "a", "1">>, 8, "x"),
     Pad(<<"A", "a", "1", "~">>, 8, "x"),
     Pad(Strong, 7, "x"), Pad(Strong, 129, "x")}

\* Passwords around the limits of the policy (8, 128) and of bcrypt (72)
PasswordInputs ==
    {PwSeed, PwA, SubSeq(PwA, 1, 7), Pad(<<>>, 8, "a")}
    \cup {Pad(Strong, n, "x") : n \in {8, 9, 71, 72, 73, 74, 128, 129}}
    \cup {Pad(Pad(Strong, n, "x"), n + 1, "y") : n \in {8, 71, 72, 73}}
    \cup OneRuleBroken

----------------------------------------------------------------------------
\* AuthMiddleware

\* What a handler of the chain does with the request: it answers with a
\* status and aborts, or calls c.Next()
Unauthorized == "401 Unauthorized"
Forbidden == "403 Forbidden"
CallsNext == "c.Next()"

\* AuthMiddleware.RequireAuth: the user of the bearer token, set in the
\* context under "user" (a context without the key is {})
RequireAuth(token) ==
    LET r == GetUserFromTokenOutcome(token) IN
    IF r.err # Nil THEN [does |-> Unauthorized, user |-> {}]
    ELSE [does |-> CallsNext, user |-> {r.out}]

\* AuthMiddleware.RequireRole: decides on the user of the context
RequireRole(context, requiredRole) ==
    IF context.user = {} THEN Unauthorized
    ELSE IF ValidateRole(Deref(context.user).Role, requiredRole) # Nil THEN Forbidden
    ELSE CallsNext

\* The chain that decides on the role claim of the token
RequireAuthThenRoleOfClaims(token, requiredRole) ==
    LET context == RequireAuth(token) IN
    IF context.does # CallsNext THEN context.does
    ELSE RequireRole([context EXCEPT
                        !.user = {[Deref(@) EXCEPT !.Role = token.claims.Role]}],
                     requiredRole)

\* A route behind RequireAuth() and RequireRole(requiredRole)
RequireAuthThenRole(token, requiredRole) ==
    LET context == RequireAuth(token) IN
    IF context.does # CallsNext THEN context.does
    ELSE RequireRole(context, requiredRole)

\* A request to such a route
Request(token, requiredRole) ==
    Answer("Request", [token |-> token, requiredRole |-> requiredRole, now |-> now],
           Nil, RequireAuthThenRole(token, requiredRole))

----------------------------------------------------------------------------
\* AuthManager

\* A call of AuthManager that hands out tokens
Hands(op, args, r) ==
    /\ r.err = Nil => nextID <= MaxIDs
    /\ last' = [op |-> op, args |-> args, err |-> r.err, out |-> r.out]
    /\ issued' = IF r.err = Nil
                 THEN issued \cup {r.out.AccessToken, r.out.RefreshToken} ELSE issued
    /\ nextID' = IF r.err = Nil THEN nextID + 1 ELSE nextID
    /\ UNCHANGED <<now, jwtManager, users, passwords, accounts, sessions, ghost, managed,
                   procs, oauth>>

\* AuthManager.CreateAuthTokens
CreateAuthTokensOutcome(userID, email, role, name) ==
    [err |-> Nil,
     out |-> [AccessToken |-> GenerateAccessToken(userID, email, role, name, nextID),
              RefreshToken |-> GenerateRefreshToken(userID, email, nextID)]]

CreateAuthTokens(userID, email, role, name) ==
    Hands("CreateAuthTokens",
          [userID |-> userID, email |-> email, role |-> role, name |-> name],
          CreateAuthTokensOutcome(userID, email, role, name))

\* AuthManager.RefreshAuthTokens: the new tokens are made of the claims of the
\* refresh token
RefreshAuthTokensOutcome(refreshToken) ==
    IF ValidateRefreshToken(refreshToken).err # Nil
    THEN [err |-> "invalid refresh token", out |-> NoToken]
    ELSE LET claims == refreshToken.claims IN
         [err |-> Nil,
          out |-> [AccessToken |-> GenerateAccessToken(claims.UserID, claims.Email,
                                                       claims.Role, claims.Name, nextID),
                   RefreshToken |-> GenerateRefreshToken(claims.UserID, claims.Email,
                                                         nextID)]]

RefreshAuthTokens(refreshToken) ==
    Hands("RefreshAuthTokens", [token |-> refreshToken, now |-> now],
          RefreshAuthTokensOutcome(refreshToken))

\* AuthManager.ValidateAuthToken
ValidateAuthToken(token) ==
    Answer("ValidateAuthToken", [token |-> token, now |-> now],
           ValidateAccessToken(token).err, NoToken)

----------------------------------------------------------------------------
\* OAuthManager

ProviderGoogle == "google"
ProviderFacebook == "facebook"

ErrProviderNotConfigured == "provider not configured"
ErrUnsupportedProvider == "unsupported provider"

NoRequest == "none"

\* NewOAuthManager: no provider, and nothing sent
NewOAuthManager == [configs |-> {}, outbound |-> NoRequest]

\* What the provider's endpoint may answer: no answer (a transport error), a
\* status other than 200, a body without, and a body with what was asked
Responses == {"transport error", "status 500", "incomplete body", "ok"}

ResponseErr(response, failed) ==
    IF response = "transport error" THEN "transport error"
    ELSE IF response = "status 500" THEN failed
    ELSE Nil

tokenURL(provider) ==
    IF provider = ProviderGoogle THEN "https://oauth2.googleapis.com/token"
    ELSE "https://graph.facebook.com/v18.0/oauth/access_token"

userInfoURL(provider) ==
    IF provider = ProviderGoogle THEN "https://www.googleapis.com/oauth2/v2/userinfo"
    ELSE "https://graph.facebook.com/me?fields=id,name,email,first_name,last_name,picture"

Supported == {ProviderGoogle, ProviderFacebook}

\* A call of OAuthManager: its answer, and the request it sent, if any
OAuthAnswer(op, provider, err, out, request) ==
    /\ last' = [op |-> op,
                args |-> [provider |-> provider, added |-> provider \in oauth.configs],
                err |-> err, out |-> out]
    /\ oauth' = [oauth EXCEPT !.outbound = request]
    /\ UNCHANGED <<now, jwtManager, users, passwords, accounts, sessions, nextID,
                   issued, ghost, managed, procs>>

\* OAuthManager.AddProvider
AddProvider(provider) ==
    /\ oauth' = [oauth EXCEPT !.configs = @ \cup {provider}]
    /\ UNCHANGED <<now, jwtManager, users, passwords, accounts, sessions, nextID,
                   issued, ghost, managed, procs, last>>

\* OAuthManager.GetAuthURL
GetAuthURL(provider) ==
    IF provider \notin oauth.configs
    THEN OAuthAnswer("GetAuthURL", provider, ErrProviderNotConfigured, NoToken, NoRequest)
    ELSE IF provider \notin Supported
    THEN OAuthAnswer("GetAuthURL", provider, ErrUnsupportedProvider, NoToken, NoRequest)
    ELSE OAuthAnswer("GetAuthURL", provider, Nil, <<"auth url", provider>>, NoRequest)

\* OAuthManager.ExchangeCodeForToken
ExchangeCodeForToken(provider, response) ==
    IF provider \notin oauth.configs
    THEN OAuthAnswer("ExchangeCodeForToken", provider, ErrProviderNotConfigured, NoToken,
                     NoRequest)
    ELSE IF provider \notin Supported
    THEN OAuthAnswer("ExchangeCodeForToken", provider, ErrUnsupportedProvider, NoToken,
                     NoRequest)
    ELSE IF ResponseErr(response, "token exchange failed") # Nil
    THEN OAuthAnswer("ExchangeCodeForToken", provider,
                     ResponseErr(response, "token exchange failed"), NoToken,
                     tokenURL(provider))
    ELSE IF response = "incomplete body"
    THEN OAuthAnswer("ExchangeCodeForToken", provider,
                     "access token not found in response", NoToken, tokenURL(provider))
    ELSE OAuthAnswer("ExchangeCodeForToken", provider, Nil, <<"access token", provider>>,
                     tokenURL(provider))

\* OAuthManager.GetUserInfo: it does not read the configurations; a body
\* without the fields asked for is parsed to a user with empty fields
GetUserInfo(provider, response) ==
    IF provider \notin Supported
    THEN OAuthAnswer("GetUserInfo", provider, ErrUnsupportedProvider, NoToken, NoRequest)
    ELSE IF ResponseErr(response, "failed to get user info") # Nil
    THEN OAuthAnswer("GetUserInfo", provider,
                     ResponseErr(response, "failed to get user info"), NoToken,
                     userInfoURL(provider))
    ELSE OAuthAnswer("GetUserInfo", provider, Nil,
                     <<"user", provider, response = "ok">>, userInfoURL(provider))

----------------------------------------------------------------------------
\* Calls in progress.  A call is a sequence of statements of the database;
\* between two of them the statements of another call may run.

\* A call moves on: nothing but the tables and its own record changes
Moves(p, record) == procs' = [procs EXCEPT ![p] = record]

Returns(p, err) == Moves(p, [procs[p] EXCEPT !.pc = "done", !.err = err])

Quiet == UNCHANGED <<now, jwtManager, ghost, managed, oauth, last>>

\* A value of uuid.New() for a users row
FreshUserID == CHOOSE i \in 1..(Cardinality(DOMAIN users) + 1) : i \notin DOMAIN users

\* UserRepository.Create that takes any email
UserCreateAnyEmail(table, id, user) ==
    IF id \in DOMAIN table
    THEN [err |-> "duplicate key", users |-> table]
    ELSE [err |-> Nil, users |-> id :> user @@ table]

\* UserRepository.Create: users.email is UNIQUE
UserCreate(table, id, user) ==
    IF id \in DOMAIN table \/ \E i \in DOMAIN table : table[i].Email = user.Email
    THEN [err |-> "duplicate key", users |-> table]
    ELSE [err |-> Nil, users |-> id :> user @@ table]

\* AuthService.Register, its check: GetByEmail
RegisterCheck(p, email, password, rejectsLong) ==
    /\ procs[p].pc = "idle"
    /\ Moves(p, [pc |-> IF GetByEmail(email) # {} THEN "done" ELSE "create",
                 op |-> "Register", email |-> email, password |-> {password},
                 rejectsLong |-> rejectsLong, role |-> RoleCashier, id |-> 0,
                 admitted |-> TRUE, found |-> GetByEmail(email) # {},
                 err |-> IF GetByEmail(email) # {} THEN ErrEmailAlreadyExists ELSE Nil])
    /\ UNCHANGED <<users, passwords, accounts, sessions, nextID, issued>>
    /\ Quiet

\* UserService.CreateUser, its checks: the requestor, then GetByEmail
CreateUserCheck(p, requestorID, email, password, role) ==
    LET err == IF requestorID \notin DOMAIN users THEN ErrWrapped
               ELSE IF users[requestorID].Role # RoleAdmin THEN ErrInsufficientRole
               ELSE IF GetByEmail(email) # {} THEN ErrEmailAlreadyExists
               ELSE Nil
    IN
    /\ procs[p].pc = "idle"
    /\ Moves(p, [pc |-> IF err # Nil THEN "done" ELSE "create",
                 op |-> "CreateUser", email |-> email, password |-> password,
                 rejectsLong |-> TRUE, role |-> IF role = {} THEN RoleCashier ELSE Deref(role),
                 id |-> 0,
                 admitted |-> requestorID \in DOMAIN users
                              /\ users[requestorID].Role = RoleAdmin,
                 found |-> GetByEmail(email) # {}, err |-> err])
    /\ UNCHANGED <<users, passwords, accounts, sessions, nextID, issued>>
    /\ Quiet

\* Register and CreateUser: userRepo.Create
CreateUserRow(p) ==
    LET call == procs[p]
        user == [Email |-> call.email, Name |-> "Ann", Role |-> call.role,
                 IsActive |-> TRUE, LastLoginAt |-> -1]
        created == UserCreate(users, FreshUserID, user)
    IN
    /\ call.pc = "create"
    /\ users' = created.users
    /\ IF created.err # Nil THEN Returns(p, ErrWrapped)
       ELSE Moves(p, [call EXCEPT !.pc = "credentials", !.id = FreshUserID])
    /\ UNCHANGED <<passwords, accounts, sessions, nextID, issued>>
    /\ Quiet

\* The passwords and accounts rows of a new user
WithPassword(id, hash) == id :> [HashedPassword |-> hash] @@ passwords

WithAccount(id, email) ==
    accounts \cup {[UserID |-> id, Type |-> "email", Provider |-> "email",
                    ProviderAccountID |-> email]}

\* AuthService.Register, after userRepo.Create: the password, the account,
\* the tokens and the session
RegisterFinish(p) ==
    LET call == procs[p]
        user == users[call.id]
        hashed == GenerateFromPassword(Deref(call.password), call.rejectsLong)
        accessToken == GenerateAccessToken(call.id, user.Email, user.Role, user.Name, nextID)
        refreshToken == GenerateRefreshToken(call.id, user.Email, nextID)
        session == SessionCreate(sessions, NewSession(nextID, call.id, refreshToken))
    IN
    /\ call.pc = "credentials"
    /\ call.op = "Register"
    /\ hashed.err = Nil => nextID <= MaxIDs
    /\ IF hashed.err # Nil
       THEN /\ Returns(p, ErrWrapped)
            /\ UNCHANGED <<passwords, accounts, sessions, nextID, issued>>
       ELSE /\ passwords' = WithPassword(call.id, hashed.hash)
            /\ accounts' = WithAccount(call.id, call.email)
            /\ sessions' = session.sessions
            /\ nextID' = nextID + 1
            /\ issued' = IF session.err = Nil
                         THEN issued \cup {accessToken, refreshToken} ELSE issued
            /\ Returns(p, IF session.err = Nil THEN Nil ELSE ErrWrapped)
    /\ UNCHANGED users
    /\ Quiet

\* UserService.CreateUser, after userRepo.Create: the password and the
\* account, when the request has a password
CreateUserFinish(p) ==
    LET call == procs[p]
        hashed == GenerateFromPassword(Deref(call.password), call.rejectsLong)
    IN
    /\ call.pc = "credentials"
    /\ call.op = "CreateUser"
    /\ IF call.password = {}
       THEN /\ Returns(p, Nil)
            /\ UNCHANGED <<passwords, accounts>>
       ELSE IF hashed.err # Nil
       THEN /\ Returns(p, ErrWrapped)
            /\ UNCHANGED <<passwords, accounts>>
       ELSE /\ passwords' = WithPassword(call.id, hashed.hash)
            /\ accounts' = WithAccount(call.id, call.email)
            /\ Returns(p, Nil)
    /\ UNCHANGED <<users, sessions, nextID, issued>>
    /\ Quiet

\* AuthService.Login, up to the verification of the password: the users row
\* and the passwords row are read, and the hash compared
LoginVerify(p, email, password) ==
    LET found == GetByEmail(email)
        id == CHOOSE i \in found : TRUE
        err == IF found = {} THEN ErrInvalidCredentials
               ELSE IF ~users[id].IsActive THEN ErrUserNotActive
               ELSE IF id \notin DOMAIN passwords THEN ErrInvalidCredentials
               ELSE IF CompareHashAndPassword(passwords[id].HashedPassword, password) # Nil
               THEN ErrInvalidCredentials
               ELSE Nil
    IN
    /\ procs[p].pc = "idle"
    /\ Moves(p, [pc |-> IF err # Nil THEN "done" ELSE "session", op |-> "Login",
                 id |-> IF found = {} THEN 0 ELSE id,
                 user |-> IF found = {} THEN {} ELSE {users[id]},
                 verified |-> IF err # Nil THEN {} ELSE {passwords[id].HashedPassword},
                 refreshToken |-> {}, err |-> err])
    /\ UNCHANGED <<users, passwords, accounts, sessions, nextID, issued>>
    /\ Quiet

\* AuthService.Login, after the verification: UpdateLastLogin, the tokens of
\* the row read before, and the session
LoginSession(p) ==
    LET call == procs[p]
        user == Deref(call.user)
        accessToken == GenerateAccessToken(call.id, user.Email, user.Role, user.Name, nextID)
        refreshToken == GenerateRefreshToken(call.id, user.Email, nextID)
        created == SessionCreate(sessions, NewSession(nextID, call.id, refreshToken))
    IN
    /\ call.pc = "session"
    /\ nextID <= MaxIDs
    /\ users' = IF call.id \in DOMAIN users THEN UpdateLastLogin(users, call.id) ELSE users
    /\ sessions' = created.sessions
    /\ nextID' = nextID + 1
    /\ issued' = IF created.err = Nil THEN issued \cup {accessToken, refreshToken} ELSE issued
    /\ Moves(p, [call EXCEPT !.pc = "done", !.refreshToken = {refreshToken},
                             !.err = IF created.err = Nil THEN Nil ELSE ErrWrapped])
    /\ UNCHANGED <<passwords, accounts>>
    /\ Quiet

\* AuthService.ChangePassword, up to the new hash: the passwords row is read,
\* the current password verified, the new one hashed
ChangePasswordVerify(p, userID, currentPassword, newPassword, rejectsLong) ==
    LET hashed == GenerateFromPassword(newPassword, rejectsLong)
        err == IF userID \notin DOMAIN passwords THEN ErrWrapped
               ELSE IF CompareHashAndPassword(passwords[userID].HashedPassword,
                                              currentPassword) # Nil
               THEN ErrInvalidCredentials
               ELSE IF hashed.err # Nil THEN ErrWrapped
               ELSE Nil
    IN
    /\ procs[p].pc = "idle"
    /\ Moves(p, [pc |-> IF err # Nil THEN "done" ELSE "update", op |-> "ChangePassword",
                 id |-> userID,
                 replaced |-> IF err # Nil THEN {} ELSE {passwords[userID].HashedPassword},
                 hash |-> IF err # Nil THEN {} ELSE {hashed.hash},
                 err |-> err])
    /\ UNCHANGED <<users, passwords, accounts, sessions, nextID, issued>>
    /\ Quiet

\* AuthService.ChangePassword: passwordRepo.Update
ChangePasswordUpdate(p) ==
    LET call == procs[p] IN
    /\ call.pc = "update"
    /\ passwords' = [passwords EXCEPT ![call.id].HashedPassword = Deref(call.hash)]
    /\ Moves(p, [call EXCEPT !.pc = "sessions"])
    /\ UNCHANGED <<users, accounts, sessions, nextID, issued>>
    /\ Quiet

\* AuthService.ChangePassword: the sessions of the user, read and deleted
ChangePasswordSessions(p) ==
    LET call == procs[p] IN
    /\ call.pc = "sessions"
    /\ sessions' = DeleteEach(sessions, GetByUserID(call.id))
    /\ Returns(p, Nil)
    /\ UNCHANGED <<users, passwords, accounts, nextID, issued>>
    /\ Quiet

\* UserService.UpdateUserRole, its checks: the requestor is read
UpdateUserRoleCheck(p, requestorID, targetUserID, role) ==
    LET err == IF requestorID \notin DOMAIN users THEN ErrWrapped
               ELSE IF users[requestorID].Role # RoleAdmin THEN ErrInsufficientRole
               ELSE IF requestorID = targetUserID THEN ErrCannotUpdateOwnRole
               ELSE Nil
    IN
    /\ procs[p].pc = "idle"
    /\ Moves(p, [pc |-> IF err # Nil THEN "done" ELSE "role", op |-> "UpdateUserRole",
                 requestor |-> requestorID, id |-> targetUserID, role |-> role,
                 err |-> err])
    /\ UNCHANGED <<users, passwords, accounts, sessions, nextID, issued>>
    /\ Quiet

\* UserService.UpdateUserRole: userRepo.UpdateRole
UpdateUserRoleWrite(p) ==
    LET call == procs[p] IN
    /\ call.pc = "role"
    /\ IF call.id \notin DOMAIN users
       THEN Returns(p, ErrUserProfileNotFound) /\ UNCHANGED users
       ELSE Returns(p, Nil) /\ users' = UserUpdateRole(users, call.id, call.role)
    /\ UNCHANGED <<passwords, accounts, sessions, nextID, issued>>
    /\ Quiet

\* UserService.DeleteUser, its checks: the requestor and the target are read
DeleteUserCheck(p, requestorID, targetUserID) ==
    LET err == IF requestorID \notin DOMAIN users THEN ErrWrapped
               ELSE IF users[requestorID].Role # RoleAdmin THEN ErrInsufficientRole
               ELSE IF requestorID = targetUserID THEN ErrCannotDeleteOwnAccount
               ELSE IF targetUserID \notin DOMAIN users THEN ErrUserProfileNotFound
               ELSE IF users[targetUserID].Role = RoleAdmin THEN ErrCannotDeactivateAdmin
               ELSE Nil
    IN
    /\ procs[p].pc = "idle"
    /\ Moves(p, [pc |-> IF err # Nil THEN "done" ELSE "delete", op |-> "DeleteUser",
                 requestor |-> requestorID, id |-> targetUserID, role |-> "",
                 err |-> err])
    /\ UNCHANGED <<users, passwords, accounts, sessions, nextID, issued>>
    /\ Quiet

\* UserService.DeleteUser: the sessions revoked, the row deleted
DeleteUserWrite(p) ==
    LET call == procs[p] IN
    /\ call.pc = "delete"
    /\ sessions' = SessionRevokeAllUserSessions(sessions, call.id)
    /\ users' = UserDelete(users, call.id)
    /\ Returns(p, Nil)
    /\ UNCHANGED <<passwords, accounts, nextID, issued>>
    /\ Quiet

Tick ==
    /\ \E t \in Instants : t > now /\ now' = t
    /\ UNCHANGED <<jwtManager, users, passwords, accounts, sessions, nextID, issued,
                   ghost, managed, procs, oauth, last>>

----------------------------------------------------------------------------
\* The service after construction: the migration's seed administrator

SeedUser ==
    [Email |-> AdminEmail, Name |-> "System Administrator", Role |-> RoleAdmin,
     IsActive |-> TRUE, LastLoginAt |-> -1]

Init ==
    /\ now = 0
    /\ jwtManager \in {NewJWTManager(SecretKey, c[1], c[2]) : c \in JWTConfigs}
    /\ users = (AdminID :> SeedUser)
    /\ passwords = (AdminID :> [HashedPassword |-> GenerateFromPassword(PwSeed, TRUE).hash])
    /\ accounts = {}
    /\ sessions = {}
    /\ nextID = 1
    /\ issued = {}
    /\ ghost = [revoked |-> {}, loggedOut |-> {}, superseded |-> {}]
    /\ managed = {}
    /\ procs = [p \in Procs |-> Idle]
    /\ oauth = NewOAuthManager
    /\ last = [op |-> "none", args |-> <<>>, err |-> Nil, out |-> NoToken]

\* A service whose refresh tokens outlive its sessions of 30 days:
\* <<accessTTLHours, refreshTTLDays>>
LongRefreshConfigs == {<<1, 31>>}

InitLongRefresh ==
    /\ now = 0
    /\ jwtManager \in {NewJWTManager(SecretKey, c[1], c[2]) : c \in LongRefreshConfigs}
    /\ users = (AdminID :> SeedUser)
    /\ passwords = (AdminID :> [HashedPassword |-> GenerateFromPassword(PwSeed, TRUE).hash])
    /\ accounts = {}
    /\ sessions = {}
    /\ nextID = 1
    /\ issued = {}
    /\ ghost = [revoked |-> {}, loggedOut |-> {}, superseded |-> {}]
    /\ managed = {}
    /\ procs = [p \in Procs |-> Idle]
    /\ oauth = NewOAuthManager
    /\ last = [op |-> "none", args |-> <<>>, err |-> Nil, out |-> NoToken]

\* Managers of any configuration: NewJWTManager takes the two numbers as they
\* come, <<accessTTLHours, refreshTTLDays>>
AnyTTLConfigs == {0, 1, 23, 24, 25, 48} \X {0, 1, 7}

InitAnyTTL ==
    /\ now = 0
    /\ jwtManager \in {NewJWTManager(SecretKey, c[1], c[2]) : c \in AnyTTLConfigs}
    /\ users = (AdminID :> SeedUser)
    /\ passwords = (AdminID :> [HashedPassword |-> GenerateFromPassword(PwSeed, TRUE).hash])
    /\ accounts = {}
    /\ sessions = {}
    /\ nextID = 1
    /\ issued = {}
    /\ ghost = [revoked |-> {}, loggedOut |-> {}, superseded |-> {}]
    /\ managed = {}
    /\ procs = [p \in Procs |-> Idle]
    /\ oauth = NewOAuthManager
    /\ last = [op |-> "none", args |-> <<>>, err |-> Nil, out |-> NoToken]

\* The instants around the expiry of the sessions of the start: the hour it
\* falls in, and the next
LateInstants == {SessionDays * HoursPerDay, SessionDays * HoursPerDay + 1}

TickLate ==
    /\ \E t \in LateInstants : t > now /\ now' = t
    /\ UNCHANGED <<jwtManager, users, passwords, accounts, sessions, nextID, issued,
                   ghost, managed, procs, oauth, last>>

\* A client watches a call, and keeps what it answered
Watched(op, args, r) == last' = Call(op, args, r)

Unwatched == UNCHANGED last

\* The lifecycle of sessions: sign-up, sign-in, refresh, and what ends sessions
Next ==
    \/ Tick
    \/ \E e \in Emails, p \in ServicePasswords : Login(e, p) /\ Unwatched
    \/ \E e \in Emails, p \in ServicePasswords :
          \E strict \in Builds(p) : Register(e, "Ann", p, strict) /\ Unwatched
    \/ \E t \in RefreshTokens : RefreshToken(t) /\ Unwatched
    \/ \E t \in RefreshTokens : Logout(t) /\ Unwatched
    \/ \E u \in UserIDs, p \in ServicePasswords, q \in ServicePasswords :
          \E strict \in Builds(q) : ChangePassword(u, p, q, strict) /\ Unwatched
    \/ \E u \in UserIDs, id \in SessionIDs : RevokeUserSession(u, id) /\ Unwatched
    \/ \E u \in UserIDs, v \in UserIDs : RevokeAllUserSessions(u, v) /\ Unwatched
    \/ \E u \in UserIDs, v \in UserIDs : DeactivateUser(u, v) /\ Unwatched
    \/ \E u \in UserIDs, v \in UserIDs : ActivateUser(u, v) /\ Unwatched

Spec == Init /\ [][Next]_vars

\* Sign-in, watched, with what changes an account
NextLogin ==
    \/ \E e \in Emails, p \in ServicePasswords :
          Login(e, p) /\ Watched("Login", [email |-> e, password |-> p], LoginOutcome(e, p))
    \/ \E e \in Emails, p \in ServicePasswords :
          \E strict \in Builds(p) : Register(e, "Ann", p, strict) /\ Unwatched
    \/ \E u \in UserIDs, p \in ServicePasswords, q \in ServicePasswords :
          \E strict \in Builds(q) : ChangePassword(u, p, q, strict) /\ Unwatched
    \/ \E u \in UserIDs, v \in UserIDs : DeactivateUser(u, v) /\ Unwatched
    \/ \E u \in UserIDs, v \in UserIDs : ActivateUser(u, v) /\ Unwatched

SpecLogin == Init /\ [][NextLogin]_vars

\* The token checks, watched, with what clients may present
NextToken ==
    \/ Tick
    \/ \E e \in Emails, p \in ServicePasswords : Login(e, p) /\ Unwatched
    \/ \E e \in Emails, p \in ServicePasswords :
          \E strict \in Builds(p) : Register(e, "Ann", p, strict) /\ Unwatched
    \/ \E t \in TokenInputs : CallValidateToken(t)
    \/ \E t \in TokenInputs : CallValidateAccessToken(t)
    \/ \E t \in TokenInputs : CallValidateRefreshToken(t)
    \/ \E t \in TokenInputs :
          RefreshToken(t) /\ Watched("RefreshToken", [token |-> t, now |-> now],
                                     RefreshTokenOutcome(t))
    \/ \E t \in TokenInputs :
          GetUserFromToken(t) /\ Watched("GetUserFromToken", [token |-> t, now |-> now],
                                         GetUserFromTokenOutcome(t))

SpecToken == Init /\ [][NextToken]_vars

\* Passwords a sign-up may carry: those of the callers, and one of 73 bytes
RegisterPasswords == ServicePasswords \cup {Pad(Strong, 73, "x")}

\* Sign-up, watched, and what follows it
NextRegister ==
    \/ Tick
    \/ \E e \in Emails, p \in RegisterPasswords : \E strict \in Builds(p) :
          Register(e, "Ann", p, strict)
             /\ Watched("Register", [email |-> e, password |-> p],
                        RegisterOutcome(e, "Ann", p, strict))
    \/ \E e \in Emails, p \in ServicePasswords : Login(e, p) /\ Unwatched
    \/ \E t \in issued :
          GetUserFromToken(t) /\ Watched("GetUserFromToken", [token |-> t, now |-> now],
                                         GetUserFromTokenOutcome(t))
    \/ \E t \in RefreshTokens : Logout(t) /\ Unwatched

SpecRegister == Init /\ [][NextRegister]_vars

\* Changes of password, watched, among sign-ins and refreshes
NextPassword ==
    \/ Tick
    \/ \E e \in Emails, p \in ServicePasswords : Login(e, p) /\ Unwatched
    \/ \E e \in Emails, p \in ServicePasswords :
          \E strict \in Builds(p) : Register(e, "Ann", p, strict) /\ Unwatched
    \/ \E t \in RefreshTokens : RefreshToken(t) /\ Unwatched
    \/ \E u \in UserIDs, p \in ServicePasswords, q \in ServicePasswords :
          \E strict \in Builds(q) :
             ChangePassword(u, p, q, strict)
                /\ Watched("ChangePassword",
                           [userID |-> u, currentPassword |-> p, newPassword |-> q,
                            sessions |-> RefreshTokensOf(u)],
                           ChangePasswordOutcome(u, p, q, strict))

SpecPassword == Init /\ [][NextPassword]_vars

\* Sign-out, watched, of tokens with and without a session
NextLogout ==
    \/ Tick
    \/ \E e \in Emails, p \in ServicePasswords : Login(e, p) /\ Unwatched
    \/ \E u \in UserIDs, p \in ServicePasswords, q \in ServicePasswords :
          \E strict \in Builds(q) : ChangePassword(u, p, q, strict) /\ Unwatched
    \/ \E t \in TokenInputs :
          Logout(t) /\ Watched("Logout",
                               [token |-> t, had |-> GetByToken(t) # {},
                                again |-> t \in ghost.loggedOut],
                               LogoutOutcome(t))

SpecLogout == Init /\ [][NextLogout]_vars

\* Refresh, watched, up to the expiry of sessions, of users active or not
NextExpiry ==
    \/ TickLate
    \/ \E e \in Emails, p \in ServicePasswords : Login(e, p) /\ Unwatched
    \/ \E e \in Emails, p \in ServicePasswords :
          \E strict \in Builds(p) : Register(e, "Ann", p, strict) /\ Unwatched
    \/ \E u \in UserIDs, v \in UserIDs : DeactivateUser(u, v) /\ Unwatched
    \/ \E u \in UserIDs, v \in UserIDs : ActivateUser(u, v) /\ Unwatched
    \/ \E t \in RefreshTokens :
          RefreshToken(t) /\ Watched("RefreshToken", [token |-> t, now |-> now],
                                     RefreshTokenOutcome(t))

SpecExpiry == InitLongRefresh /\ [][NextExpiry]_vars

\* The sessions of SessionManager, and the session rows under the operations
\* of the services that create rows or write the active flags
NextSession ==
    \/ Tick
    \/ \E u \in UserIDs : CallGenerateSession(u)
    \/ \E s \in managed : CallRefreshSession(s)
    \/ \E s \in managed : CallRevokeSession(s)
    \/ \E s \in managed \cup {NilSession} : CallIsSessionValid(s)
    \/ \E e \in Emails, p \in ServicePasswords : Login(e, p) /\ Unwatched
    \/ \E e \in Emails, p \in ServicePasswords :
          \E strict \in Builds(p) : Register(e, "Ann", p, strict) /\ Unwatched
    \/ \E t \in RefreshTokens : RefreshToken(t) /\ Unwatched
    \/ \E u \in UserIDs, v \in UserIDs : RevokeAllUserSessions(u, v) /\ Unwatched
    \/ \E u \in UserIDs, v \in UserIDs : DeactivateUser(u, v) /\ Unwatched
    \/ \E u \in UserIDs, v \in UserIDs : ActivateUser(u, v) /\ Unwatched

SpecSession == Init /\ [][NextSession]_vars

\* The check of bearer tokens, watched, among what ends sessions
NextBearer ==
    \/ Tick
    \/ \E e \in Emails, p \in ServicePasswords : Login(e, p) /\ Unwatched
    \/ \E t \in RefreshTokens : Logout(t) /\ Unwatched
    \/ \E u \in UserIDs, p \in ServicePasswords, q \in ServicePasswords :
          \E strict \in Builds(q) : ChangePassword(u, p, q, strict) /\ Unwatched
    \/ \E u \in UserIDs, v \in UserIDs : RevokeAllUserSessions(u, v) /\ Unwatched
    \/ \E t \in issued :
          GetUserFromToken(t) /\ Watched("GetUserFromToken", [token |-> t, now |-> now],
                                         GetUserFromTokenOutcome(t))

SpecBearer == Init /\ [][NextBearer]_vars

\* Requests of UpdateUser: each field absent or present
UpdateUserRequests == [Name : {{}, {"Bob"}}, IsActive : {{}, {TRUE}, {FALSE}}]

\* The calls a user makes, watched, among activation and deactivation
NextInactive ==
    \/ Tick
    \/ \E e \in Emails, p \in ServicePasswords :
          \E strict \in Builds(p) : Register(e, "Ann", p, strict) /\ Unwatched
    \/ \E e \in Emails, p \in ServicePasswords :
          Login(e, p) /\ Watched("Login", [email |-> e, password |-> p],
                                 LoginOutcome(e, p))
    \/ \E u \in UserIDs, v \in UserIDs : DeactivateUser(u, v) /\ Unwatched
    \/ \E u \in UserIDs, v \in UserIDs, req \in UpdateUserRequests :
          UpdateUser(u, v, req) /\ Unwatched
    \/ \E u \in UserIDs, v \in UserIDs : ActivateUser(u, v) /\ Unwatched
    \/ \E t \in RefreshTokens :
          RefreshToken(t) /\ Watched("RefreshToken", [token |-> t, now |-> now],
                                     RefreshTokenOutcome(t))
    \/ \E t \in issued :
          GetUserFromToken(t) /\ Watched("GetUserFromToken", [token |-> t, now |-> now],
                                         GetUserFromTokenOutcome(t))

SpecInactive == Init /\ [][NextInactive]_vars

\* Sign-ups in progress at once: Register and CreateUser
NextEmail ==
    \/ \E p \in Procs, e \in Emails, pw \in RegisterPasswords :
          \E strict \in Builds(pw) : RegisterCheck(p, e, pw, strict)
    \/ \E p \in Procs, u \in UserIDs, e \in Emails, pw \in {{}, {PwA}},
          role \in {{}, {RoleManager}} : CreateUserCheck(p, u, e, pw, role)
    \/ \E p \in Procs : CreateUserRow(p)
    \/ \E p \in Procs : RegisterFinish(p)
    \/ \E p \in Procs : CreateUserFinish(p)

SpecEmail == Init /\ [][NextEmail]_vars

\* Providers a caller may name: the two the manager knows, and another
ProviderInputs == {ProviderGoogle, ProviderFacebook, "github"}

\* The calls of OAuthManager
NextOAuth ==
    \/ \E provider \in ProviderInputs : AddProvider(provider)
    \/ \E provider \in ProviderInputs : GetAuthURL(provider)
    \/ \E provider \in ProviderInputs, response \in Responses :
          ExchangeCodeForToken(provider, response)
    \/ \E provider \in ProviderInputs, response \in Responses :
          GetUserInfo(provider, response)

SpecOAuth == Init /\ [][NextOAuth]_vars

\* Token pairs of managers of any configuration
NextTTL ==
    \/ Tick
    \/ \E e \in Emails, p \in ServicePasswords : Login(e, p) /\ Unwatched
    \/ \E t \in RefreshTokens : RefreshToken(t) /\ Unwatched

SpecTTL == InitAnyTTL /\ [][NextTTL]_vars

\* A change of password and sign-ins in progress at once
NextRace ==
    \/ \E p \in Procs, e \in Emails, pw \in ServicePasswords : LoginVerify(p, e, pw)
    \/ \E p \in Procs : LoginSession(p)
    \/ \E p \in Procs, u \in UserIDs, pw \in ServicePasswords, new \in RegisterPasswords :
          \E strict \in Builds(new) : ChangePasswordVerify(p, u, pw, new, strict)
    \/ \E p \in Procs : ChangePasswordUpdate(p)
    \/ \E p \in Procs : ChangePasswordSessions(p)
    \/ \E e \in Emails, pw \in ServicePasswords : Login(e, pw) /\ Unwatched
    \/ Tick

SpecRace == Init /\ [][NextRace]_vars

\* The administrators' calls in progress at once.  Sign-up is of emails not
\* registered before: accounts rows outlive the deletion of their user
NextAdmins ==
    \/ \E e \in Emails :
          /\ \A a \in accounts : a.ProviderAccountID # e
          /\ Register(e, "Ann", PwA, TRUE) /\ Unwatched
    \/ \E p \in Procs, u \in UserIDs, v \in UserIDs, role \in {RoleCashier, RoleAdmin} :
          UpdateUserRoleCheck(p, u, v, role)
    \/ \E p \in Procs : UpdateUserRoleWrite(p)
    \/ \E p \in Procs, u \in UserIDs, v \in UserIDs : DeleteUserCheck(p, u, v)
    \/ \E p \in Procs : DeleteUserWrite(p)
    \/ \E u \in UserIDs, v \in UserIDs, role \in {RoleCashier, RoleAdmin} :
          UpdateUserRole(u, v, role) /\ Unwatched
    \/ \E u \in UserIDs, v \in UserIDs : DeactivateUser(u, v) /\ Unwatched
    \/ \E u \in UserIDs, v \in UserIDs :
          UpdateUser(u, v, [Name |-> {}, IsActive |-> {FALSE}]) /\ Unwatched

SpecAdmins == Init /\ [][NextAdmins]_vars

\* The calls of AuthManager
NextAuthManager ==
    \/ Tick
    \/ \E u \in UserIDs, role \in {RoleManager, ""}, name \in {"", "Ann"} :
          CreateAuthTokens(u, "a@x.com", role, name)
    \/ \E t \in TokenInputs : RefreshAuthTokens(t)
    \/ \E t \in TokenInputs : ValidateAuthToken(t)

SpecAuthManager == Init /\ [][NextAuthManager]_vars

\* The role of a user changed while the user holds tokens
NextRole ==
    \/ Tick
    \/ Login(AdminEmail, PwSeed) /\ Unwatched
    \/ \E e \in Emails :
          Register(e, "Ann", PwA, TRUE) /\ Unwatched
    \/ \E u \in UserIDs, v \in UserIDs, role \in Roles :
          UpdateUserRole(u, v, role) /\ Unwatched
    \/ \E t \in issued :
          GetUserFromToken(t) /\ Watched("GetUserFromToken", [token |-> t, now |-> now],
                                         GetUserFromTokenOutcome(t))
    \/ \E t \in issued :
          RefreshToken(t) /\ Watched("RefreshToken", [token |-> t, now |-> now],
                                     RefreshTokenOutcome(t))
    \/ \E t \in issued, required \in Roles : Request(t, required)

SpecRole == Init /\ [][NextRole]_vars

\* The pure functions: roles and passwords
NextPure ==
    \/ \E h \in RoleInputs, r \in RoleInputs : CallValidateRole(h, r)
    \/ \E h \in AnyRoleInputs, r \in AnyRoleInputs : CallCanAccessResource(h, r)
    \/ \E p \in PasswordInputs : CallValidatePassword(p)
    \/ \E p \in PasswordInputs :
          \E strict \in Builds(p) : CallHashPassword(p, strict)
    \/ \E p \in PasswordInputs, q \in PasswordInputs :
          \E strict \in Builds(q) : CallVerifyPassword(p, q, strict)
    \/ \E n \in LengthInputs, source \in RandomSources, bits \in IntBits :
          CallGenerateRandomPassword(n, source, bits)

SpecPure == Init /\ [][NextPure]_vars

----------------------------------------------------------------------------
\* Properties

\* A refresh token that would pass but for its session: signed by the manager,
\* not expired, of a user who is active
StillValid(rt) ==
    /\ ValidateRefreshToken(rt).err = Nil
    /\ rt.claims.UserID \in DOMAIN users
    /\ users[rt.claims.UserID].IsActive

\* C1: for every refresh token whose session was revoked (by Logout, by
\* RevokeUserSession, or by RevokeAllUserSessions setting active=false),
\* RefreshToken fails and returns no access token.
C1_RevokedSessionCannotRefresh ==
    \A rt \in ghost.revoked :
        /\ RefreshTokenOutcome(rt).err # Nil
        /\ RefreshTokenOutcome(rt).out = NoToken

C3_LoggedOutCannotRefresh ==
    \A rt \in ghost.loggedOut : RefreshTokenOutcome(rt).err # Nil

\* A logged-out refresh token that only the missing session stops, while its
\* user has signed in again
C3_Witness ==
    \E rt \in ghost.loggedOut :
        /\ StillValid(rt)
        /\ RefreshTokenOutcome(rt).err = ErrInvalidToken
        /\ \E s \in sessions : s.UserID = rt.claims.UserID /\ s.ID > rt.claims.ID

\* What revoking the rows `gone` leaves alone: every other row is kept as it
\* was and none is added, the users and their passwords are as they were, and
\* so is the answer of RefreshToken for every other session
OthersUnchanged(gone) ==
    /\ \A s \in sessions \ gone : s \in sessions'
    /\ sessions' \subseteq sessions
    /\ users' = users
    /\ passwords' = passwords
    /\ \A s \in sessions \ gone :
          (RefreshTokenOutcome(s.SessionToken).err)' = RefreshTokenOutcome(s.SessionToken).err

\* C4: revoking one session, by Logout or by RevokeUserSession, leaves every
\* other session of the same user and of other users unchanged, and RefreshToken
\* with a sibling's refresh token still succeeds.  (A step that changes no table
\* keeps them trivially.)
C4_RevokingOneKeepsSiblings ==
    [][\/ UNCHANGED <<users, passwords, sessions>>
       \/ /\ \A t \in RefreshTokens : Logout(t) => OthersUnchanged(GetByToken(t))
          /\ \A u \in UserIDs, id \in SessionIDs :
                RevokeUserSession(u, id) => OthersUnchanged({s \in sessions : s.ID = id})]_vars

\* A session ended by Logout whose older sibling still refreshes
C4_Witness ==
    \E rt \in ghost.loggedOut \cap ghost.revoked, s \in sessions :
        /\ s.UserID = rt.claims.UserID
        /\ s.ID < rt.claims.ID
        /\ RefreshTokenOutcome(s.SessionToken).err = Nil

\* The password does not verify against the hash stored for the email's account
WrongPassword(email, password) ==
    /\ GetByEmail(email) # {}
    /\ LET id == CHOOSE i \in GetByEmail(email) : TRUE IN
       /\ id \in DOMAIN passwords
       /\ CompareHashAndPassword(passwords[id].HashedPassword, password) # Nil

IsActiveAccount(email) ==
    GetByEmail(email) # {} /\ users[CHOOSE i \in GetByEmail(email) : TRUE].IsActive

\* C5: Login for an email without an account, and Login for an active account
\* with a wrong password, return the same error, ErrInvalidCredentials, create
\* no session and change nothing that is stored.
C5_LoginFailuresAlike ==
    \A e \in Emails, p \in ServicePasswords :
        GetByEmail(e) = {} \/ (IsActiveAccount(e) /\ WrongPassword(e, p)) =>
            LET r == LoginOutcome(e, p) IN
            /\ r.err = ErrInvalidCredentials
            /\ r.out = NoToken
            /\ r.users = users /\ r.passwords = passwords
            /\ r.accounts = accounts /\ r.sessions = sessions

\* A sign-in to an active account refused for its password
C5_Witness ==
    /\ last.op = "Login"
    /\ last.err = ErrInvalidCredentials
    /\ IsActiveAccount(last.args.email)
    /\ WrongPassword(last.args.email, last.args.password)

\* C6: for a caller without the correct password, the error of Login is the
\* same whether the email is unregistered, of an active account or of an
\* inactive one: never the account-inactive error.
C6_ErrorHidesAccountState ==
    \A e \in Emails, p \in ServicePasswords :
        GetByEmail(e) = {} \/ WrongPassword(e, p) =>
            LoginOutcome(e, p).err = ErrInvalidCredentials

\* The ranks of the closed set of roles
Rank(role) == CASE role = RoleCashier -> 1 [] role = RoleManager -> 2 [] role = RoleAdmin -> 3

Satisfies(held, required) == ValidateRole(held, required) = Nil

\* C7: over CASHIER < MANAGER < ADMIN, ValidateRole(held, required) succeeds iff
\* rank(held) >= rank(required) and otherwise fails with ErrInsufficientRole;
\* the relation is reflexive, transitive, antisymmetric and total.
C7_ValidateRoleIsRankOrder ==
    /\ last.op = "ValidateRole" /\ last.args.userRole \in Roles
          /\ last.args.requiredRole \in Roles =>
          last.err = IF Rank(last.args.userRole) >= Rank(last.args.requiredRole)
                     THEN Nil ELSE ErrInsufficientRole
    /\ \A h \in Roles, r \in Roles :
          ValidateRole(h, r) = IF Rank(h) >= Rank(r) THEN Nil ELSE ErrInsufficientRole
    /\ ~Satisfies(RoleCashier, RoleManager) /\ Satisfies(RoleAdmin, RoleCashier)
    /\ \A a \in Roles : Satisfies(a, a)
    /\ \A a \in Roles, b \in Roles, c \in Roles :
          Satisfies(a, b) /\ Satisfies(b, c) => Satisfies(a, c)
    /\ \A a \in Roles, b \in Roles : Satisfies(a, b) /\ Satisfies(b, a) => a = b
    /\ \A a \in Roles, b \in Roles : Satisfies(a, b) \/ Satisfies(b, a)

\* A cashier asked for the manager's role, and refused
C7_Witness ==
    /\ last.op = "ValidateRole"
    /\ last.args = [userRole |-> RoleCashier, requiredRole |-> RoleManager]
    /\ last.err = ErrInsufficientRole

\* C8: a token of GenerateAccessToken is accepted by ValidateAccessToken before
\* its expiry and rejected by ValidateRefreshToken, a token of
\* GenerateRefreshToken the other way round; RefreshToken given an access token
\* and GetUserFromToken given a refresh token fail with ErrInvalidToken.
C8_TokenTypeEnforced ==
    \A t \in issued :
        /\ t.claims.TokenType = "access" =>
              /\ now < t.claims.ExpiresAt => ValidateAccessToken(t).err = Nil
              /\ ValidateRefreshToken(t).err # Nil
              /\ RefreshTokenOutcome(t).err = ErrInvalidToken
        /\ t.claims.TokenType = "refresh" =>
              /\ now < t.claims.ExpiresAt => ValidateRefreshToken(t).err = Nil
              /\ ValidateAccessToken(t).err # Nil
              /\ GetUserFromTokenOutcome(t).err = ErrInvalidToken

\* An access token of the service, not yet expired, refused by RefreshToken
C8_Witness ==
    /\ last.op = "RefreshToken"
    /\ last.args.token \in issued
    /\ last.args.token.claims.TokenType = "access"
    /\ last.args.now < last.args.token.claims.ExpiresAt
    /\ last.err = ErrInvalidToken

\* C9: ValidateToken rejects a correctly signed token at every instant
\* now >= expires-at, the instant now = expires-at included, and accepts it at
\* every instant with issued-at <= now < expires-at.
C9_ExpiryBoundary ==
    \A t \in issued :
        /\ now >= t.claims.ExpiresAt => ValidateToken(t).err # Nil
        /\ t.claims.IssuedAt <= now /\ now < t.claims.ExpiresAt => ValidateToken(t).err = Nil

\* A token of the service checked at the instant it expires, and rejected
C9_Witness ==
    /\ last.op = "ValidateToken"
    /\ last.args.token \in issued
    /\ last.args.now = last.args.token.claims.ExpiresAt
    /\ last.err # Nil

\* C10: for every secret S that satisfies the policy, HashPassword(S) succeeds,
\* VerifyPassword(S, HashPassword(S)) succeeds, and VerifyPassword(S2, HashPassword(S))
\* fails for every S2 other than S.
C10_HashThenVerify ==
    /\ last.op = "HashPassword" /\ ValidatePassword(last.args.password) = Nil =>
          last.err = Nil
    /\ last.op = "VerifyPassword" /\ ValidatePassword(last.args.hashed) = Nil =>
          (last.err = Nil <=> last.args.password = last.args.hashed)

\* The policy, rule by rule
CharsOf(password) == {password[i] : i \in 1..Len(password)}

MeetsPolicy(password) ==
    /\ Len(password) >= 8 /\ Len(password) <= 128
    /\ \A class \in {Uppercase, Lowercase, Numbers, SpecialChars} :
          CharsOf(password) \cap class # {}

WeakSecretErrors ==
    {"password must be at least 8 characters long",
     "password must be less than 128 characters long",
     "password must contain at least one uppercase letter",
     "password must contain at least one lowercase letter",
     "password must contain at least one number",
     "password must contain at least one special character"}

\* C11: ValidatePassword accepts a password iff its length is between 8 and 128
\* inclusive and it holds an uppercase letter, a lowercase letter, a digit and a
\* special character; HashPassword of a password the policy rejects returns the
\* validation error and no hash.
C11_PolicyDecidesValidation ==
    /\ last.op = "ValidatePassword" =>
          /\ last.err = Nil <=> MeetsPolicy(last.args.password)
          /\ last.err # Nil => last.err \in WeakSecretErrors
    /\ last.op = "HashPassword" /\ ~MeetsPolicy(last.args.password) =>
          /\ last.err \in WeakSecretErrors
          /\ last.out = NoHash

\* A password of 8 characters that lacks only the special character, refused
\* by HashPassword without a hash
C11_Witness ==
    /\ last.op = "HashPassword"
    /\ last.args.password = Pad(<<"A", "a", "1">>, 8, "x")
    /\ last.err = "password must contain at least one special character"
    /\ last.out = NoHash

\* C12: for every length n >= 8 asked for and every outcome of the random
\* source, GenerateRandomPassword(n) returns a string of length n that
\* ValidatePassword accepts.
C12_GeneratedPasswordValid ==
    last.op = "GenerateRandomPassword" /\ last.args.length >= 8 =>
        /\ last.err = Nil
        /\ Len(last.out) = last.args.length
        /\ ValidatePassword(last.out) = Nil

\* C13: every stored hash is of a password that satisfies the policy: Register
\* and ChangePassword called with a password that violates it fail, with a
\* weak-password error when nothing else stops them first, and store no hash.
C13_WeakPasswordStoresNoHash ==
    [][/\ \A e \in Emails, p \in ServicePasswords : \A strict \in Builds(p) :
             Register(e, "Ann", p, strict) /\ ~MeetsPolicy(p) =>
                /\ passwords' = passwords
                /\ RegisterOutcome(e, "Ann", p, strict).err # Nil
                /\ GetByEmail(e) = {} =>
                      RegisterOutcome(e, "Ann", p, strict).err \in WeakSecretErrors
       /\ \A u \in UserIDs, p \in ServicePasswords, q \in ServicePasswords :
             \A strict \in Builds(q) :
                ChangePassword(u, p, q, strict) /\ ~MeetsPolicy(q) =>
                   /\ passwords' = passwords
                   /\ ChangePasswordOutcome(u, p, q, strict).err # Nil
      ]_vars

\* C14: if Register returns an error for an email that was not registered
\* before the call, then no users row, no passwords row and no accounts row of
\* that email exists afterwards, and Register with the same email again is not
\* rejected with ErrEmailAlreadyExists.
C14_FailedRegisterLeavesNothing ==
    last.op = "Register" /\ last.err # Nil /\ last.err # ErrEmailAlreadyExists =>
        /\ GetByEmail(last.args.email) = {}
        /\ \A id \in DOMAIN passwords : id \in DOMAIN users
        /\ \A a \in accounts : a.ProviderAccountID # last.args.email
        /\ \A p \in RegisterPasswords : \A strict \in Builds(p) :
              RegisterOutcome(last.args.email, "Ann", p, strict).err # ErrEmailAlreadyExists

C16_WrongCurrentPasswordChangesNothing ==
    [][\A u \in UserIDs, p \in ServicePasswords, q \in ServicePasswords :
          \A strict \in Builds(q) :
             /\ ChangePassword(u, p, q, strict)
             /\ u \in DOMAIN passwords
             /\ CompareHashAndPassword(passwords[u].HashedPassword, p) # Nil
             => /\ ChangePasswordOutcome(u, p, q, strict).err = ErrInvalidCredentials
                /\ passwords' = passwords
                /\ UNCHANGED <<users, accounts, sessions>>
                /\ \A t \in RefreshTokensOf(u) :
                      /\ GetByToken(t)' = GetByToken(t)
                      /\ (RefreshTokenOutcome(t).err)' = RefreshTokenOutcome(t).err
      ]_vars

\* A user with a session that serves RefreshToken, after a ChangePassword with
\* a wrong current password was refused
C16_Witness ==
    /\ last.op = "ChangePassword" /\ last.err = ErrInvalidCredentials
    /\ last.args.sessions # {}
    /\ \A t \in last.args.sessions : RefreshTokenOutcome(t).err = Nil
    /\ CompareHashAndPassword(passwords[last.args.userID].HashedPassword,
                              last.args.currentPassword) # Nil

\* C17: Logout is idempotent: with a refresh token that has no session (never
\* issued, logged out already, or purged) it returns success and changes no
\* state, and Logout twice with the same token leaves the state Logout once
\* leaves.
C17_LogoutIdempotent ==
    [][\A t \in TokenInputs :
          Logout(t) =>
             /\ LogoutOutcome(t).err = Nil
             /\ GetByToken(t) = {} => UNCHANGED <<users, passwords, accounts, sessions>>
             /\ (LogoutOutcome(t).err)' = Nil
             /\ (LogoutOutcome(t).sessions)' = sessions'
             /\ (LogoutOutcome(t).users)' = users'
             /\ (LogoutOutcome(t).passwords)' = passwords'
             /\ (LogoutOutcome(t).accounts)' = accounts'
      ]_vars

\* The second Logout of a token: no session was left, and it succeeded
C17_Witness ==
    /\ last.op = "Logout" /\ last.err = Nil
    /\ last.args.again /\ ~last.args.had
    /\ last.args.token \in RefreshTokens

\* C18: RefreshToken checks the token type, then the session, then the user:
\* given a valid refresh token whose session row is past its expiry it fails
\* with ErrTokenExpired and deletes that row before it returns, whether the
\* owner is active or not, and leaves every other session row as it was.
C18_ExpiredSessionPurged ==
    [][\A t \in RefreshTokens :
          /\ RefreshToken(t)
          /\ ValidateRefreshToken(t).err = Nil
          /\ \E s \in GetByToken(t) : s.ExpiresAt < now
          => /\ RefreshTokenOutcome(t).err = ErrTokenExpired
             /\ sessions' = sessions \ GetByToken(t)
      ]_vars

\* C19: no operation changes a session's active flag from false to true: once
\* RevokeSession(s) was called IsSessionValid(s) is false in every later state,
\* after any number of RefreshSession(s) too, and no operation of AuthService
\* or UserService makes a revoked session row active again.
C19_RevokedStaysRevoked ==
    [][/\ \A s \in managed : ~s.IsActive =>
             \A s2 \in managed' :
                s2.SessionToken = s.SessionToken => ~s2.IsActive /\ ~IsSessionValid(s2)'
       /\ \A s \in managed : managed' = (managed \ {s}) \cup {RevokeSession(s)} =>
             \A s2 \in managed' :
                s2.SessionToken = s.SessionToken => ~s2.IsActive /\ ~IsSessionValid(s2)'
       /\ \A r \in sessions : ~r.IsActive =>
             \A r2 \in sessions' : r2.ID = r.ID => ~r2.IsActive
      ]_vars

\* A session revoked and then refreshed: its expiry lies ahead, and
\* IsSessionValid said no
C19_Witness ==
    /\ last.op = "IsSessionValid" /\ last.out = FALSE
    /\ last.args.session \in managed
    /\ ~last.args.session.IsActive
    /\ last.args.now < last.args.session.ExpiresAt
    /\ \E r \in sessions : ~r.IsActive

\* The refresh token handed out with an access token
IssuedWith(accessToken) ==
    {rt \in RefreshTokens : rt.claims.ID = accessToken.claims.ID}

\* C20: GetUserFromToken neither reads nor writes the sessions: with the token,
\* the users and the clock the same its result is the same whatever the
\* sessions are, so an access token of Login is accepted after Logout,
\* ChangePassword or RevokeAllUserSessions until it expires or its user is
\* inactive.
C20_BearerIgnoresSessions ==
    [][/\ \A t \in issued :
             /\ UNCHANGED <<now, jwtManager, users>> =>
                   /\ (GetUserFromTokenOutcome(t).err)' = GetUserFromTokenOutcome(t).err
                   /\ (GetUserFromTokenOutcome(t).out)' = GetUserFromTokenOutcome(t).out
             /\ GetUserFromToken(t) => UNCHANGED sessions
       /\ \A t \in issued' :
             /\ t.claims.TokenType = "access" /\ now' < t.claims.ExpiresAt
             /\ t.claims.UserID \in DOMAIN users' /\ users'[t.claims.UserID].IsActive
             => (GetUserFromTokenOutcome(t).err)' = Nil
      ]_vars

\* An access token accepted after the session it came with was logged out
C20_Witness ==
    /\ last.op = "GetUserFromToken" /\ last.err = Nil
    /\ last.args.token.claims.TokenType = "access"
    /\ \E rt \in IssuedWith(last.args.token) :
          rt \in ghost.loggedOut /\ GetByToken(rt) = {}
    /\ GetByUserID(last.args.token.claims.UserID) = {}

----------------------------------------------------------------------------
\* Deactivation

InactiveUsers == {u \in DOMAIN users : ~users[u].IsActive}

TokensOf(userID) == {t \in issued : t.claims.UserID = userID}

KnowsPassword(userID, password) ==
    /\ userID \in DOMAIN passwords
    /\ CompareHashAndPassword(passwords[userID].HashedPassword, password) = Nil

\* What a call with the token answers: RefreshToken for a refresh token,
\* GetUserFromToken for an access token
AnswerTo(t) ==
    IF t.claims.TokenType = "refresh" THEN RefreshTokenOutcome(t).err
    ELSE GetUserFromTokenOutcome(t).err

Unexpired(t) ==
    IF t.claims.TokenType = "refresh" THEN ValidateRefreshToken(t).err = Nil
    ELSE ValidateAccessToken(t).err = Nil

\* C21 (as amended): while a user is inactive, all of the user's session rows
\* are revoked, every RefreshToken with an unexpired refresh token of the user,
\* every GetUserFromToken with an unexpired access token of the user and every
\* Login of the user with the correct password fail with ErrUserNotActive.
C21_InactiveUserLockedOut ==
    \A u \in InactiveUsers :
        /\ \A s \in GetByUserID(u) : ~s.IsActive
        /\ \A t \in TokensOf(u) : Unexpired(t) => AnswerTo(t) = ErrUserNotActive
        /\ \A p \in ServicePasswords :
              KnowsPassword(u, p) => LoginOutcome(users[u].Email, p).err = ErrUserNotActive

\* C21 as stated: every token of the inactive user, expired or not, is answered
\* with ErrUserNotActive
C21_EveryTokenAnsweredInactive ==
    \A u \in InactiveUsers :
        /\ \A s \in GetByUserID(u) : ~s.IsActive
        /\ \A t \in TokensOf(u) : AnswerTo(t) = ErrUserNotActive
        /\ \A p \in ServicePasswords :
              KnowsPassword(u, p) => LoginOutcome(users[u].Email, p).err = ErrUserNotActive

\* A deactivated user with a session, whose refresh was just answered
C21_Witness ==
    /\ last.op = "RefreshToken"
    /\ last.err = ErrUserNotActive
    /\ \E u \in InactiveUsers :
          /\ last.args.token \in TokensOf(u)
          /\ GetByUserID(u) # {}
          /\ users[u].Name = "Bob"

----------------------------------------------------------------------------
\* Sign-ups at once

RowsWith(email) == {i \in DOMAIN users : users[i].Email = email}

\* The calls that found no row with their email: they went on to create one
PastCheck(p) == procs[p].pc # "idle" /\ procs[p].admitted /\ ~procs[p].found

\* C22: no two users rows have the same email; a Register, or a CreateUser of
\* an administrator, that finds a row with its email returns
\* ErrEmailAlreadyExists and writes nothing; and once two calls for the same
\* email that both found no row have returned, at most one has succeeded and
\* exactly one row has that email.
C22_EmailUnique ==
    /\ [](\A i \in DOMAIN users, j \in DOMAIN users :
             users[i].Email = users[j].Email => i = j)
    /\ [][\A p \in Procs :
            (/\ procs[p].pc = "idle"
             /\ procs'[p].pc # "idle"
             /\ procs'[p].admitted
             /\ RowsWith(procs'[p].email) # {})
            => /\ procs'[p].pc = "done"
               /\ procs'[p].err = ErrEmailAlreadyExists
               /\ UNCHANGED <<users, passwords, accounts, sessions>>]_vars
    /\ [](\A p \in Procs, q \in Procs :
             (/\ p # q
              /\ PastCheck(p) /\ PastCheck(q)
              /\ procs[p].pc = "done" /\ procs[q].pc = "done"
              /\ procs[p].email = procs[q].email)
             => /\ procs[p].err # Nil \/ procs[q].err # Nil
                /\ Cardinality(RowsWith(procs[p].email)) = 1)

\* Two Register calls for one new email have both returned: both had found
\* no row, one succeeded
C22_Witness ==
    /\ \A p \in Procs : /\ procs[p].pc = "done"
                         /\ procs[p].op = "Register"
                         /\ procs[p].email = "a@x.com"
                         /\ PastCheck(p)
    /\ \E p \in Procs : procs[p].err = Nil
    /\ \E p \in Procs : procs[p].err = ErrWrapped

----------------------------------------------------------------------------
\* OAuth providers

OAuthCalls == {"GetAuthURL", "ExchangeCodeForToken", "GetUserInfo"}

\* C23: a call of GetAuthURL, ExchangeCodeForToken or GetUserInfo for a
\* provider that was not added fails with the provider-not-configured error
\* and sends no request.
C23_UnconfiguredProviderFails ==
    (last.op \in OAuthCalls /\ ~last.args.added)
    => (last.err = ErrProviderNotConfigured /\ oauth.outbound = NoRequest)

----------------------------------------------------------------------------
\* Token lifetimes

\* C24: the access-token TTL of the manager is strictly shorter than its
\* refresh-token TTL, and an access token expires before every refresh token
\* issued at the same time.
C24_AccessExpiresFirst ==
    /\ jwtManager.accessTokenTTL < jwtManager.refreshTokenTTL
    /\ \A a \in issued, r \in issued :
          (/\ a.claims.TokenType = "access"
           /\ r.claims.TokenType = "refresh"
           /\ a.claims.IssuedAt = r.claims.IssuedAt)
          => a.claims.ExpiresAt < r.claims.ExpiresAt

----------------------------------------------------------------------------
\* A change of password while a sign-in is in progress

\* C25: once a ChangePassword of a user has succeeded and a Login of that
\* user that verified the password it replaced has returned, the session of
\* that Login is not in the sessions table.
C25_OldPasswordSessionGone ==
    \A p \in Procs, q \in Procs :
        (/\ procs[p].pc = "done" /\ procs[p].op = "ChangePassword" /\ procs[p].err = Nil
         /\ procs[q].pc = "done" /\ procs[q].op = "Login" /\ procs[q].err = Nil
         /\ procs[q].id = procs[p].id
         /\ procs[q].verified = procs[p].replaced
         /\ procs[p].hash # procs[p].replaced)
        => \A t \in procs[q].refreshToken : GetByToken(t) = {}

----------------------------------------------------------------------------
\* Administrators

Admins == {u \in DOMAIN users : users[u].Role = RoleAdmin}

\* C26: there is an administrator, and there remains one after every step of
\* UpdateUserRole, DeactivateUser, UpdateUser and DeleteUser, in sequence or
\* in progress at once.
C26_AdminRemains == Admins # {}

----------------------------------------------------------------------------
\* Reactivation

\* C27: a refresh token whose session was revoked by a deactivation is
\* rejected by RefreshToken also once its user is active again.
C27_ReactivationRevivesNoToken ==
    \A rt \in ghost.revoked :
        (/\ rt.claims.UserID \in DOMAIN users
         /\ users[rt.claims.UserID].IsActive)
        => RefreshTokenOutcome(rt).err # Nil

----------------------------------------------------------------------------
\* AuthManager

\* The access token handed out with a refresh token
AccessTokenOf(refreshToken) ==
    {a \in issued : a.claims.TokenType = "access" /\ a.claims.ID = refreshToken.claims.ID}

\* C28: when RefreshAuthTokens has just succeeded with a refresh token, the new
\* access token passes ValidateAccessToken and carries the userID, email, role
\* and name of the access token that was handed out with the refresh token, and
\* the new tokens are not the old ones.
C28_RefreshPreservesPrincipal ==
    (last.op = "RefreshAuthTokens" /\ last.err = Nil /\ last.args.now = now)
    => /\ ValidateAccessToken(last.out.AccessToken).err = Nil
       /\ last.out.RefreshToken # last.args.token
       /\ \A a \in AccessTokenOf(last.args.token) :
             /\ last.out.AccessToken # a
             /\ last.out.AccessToken.claims.UserID = a.claims.UserID
             /\ last.out.AccessToken.claims.Email = a.claims.Email
             /\ last.out.AccessToken.claims.Role = a.claims.Role
             /\ last.out.AccessToken.claims.Name = a.claims.Name

----------------------------------------------------------------------------
\* The role that decides

\* The role in the users row of the user a token names
CurrentRole(t) == users[t.claims.UserID].Role

\* C29: for every token handed out, GetUserFromToken answers, when it
\* succeeds, with the user's current role; a route behind RequireRole lets the
\* request through exactly when the current role satisfies the required one;
\* and RefreshToken, when it succeeds, mints an access token with the current
\* role, whatever role the tokens were issued with.
C29_CurrentRoleDecides ==
    \A t \in issued :
        /\ GetUserFromTokenOutcome(t).err = Nil
           => /\ GetUserFromTokenOutcome(t).out.Role = CurrentRole(t)
              /\ \A required \in Roles :
                    RequireAuthThenRole(t, required) = CallsNext
                    <=> ValidateRole(CurrentRole(t), required) = Nil
        /\ RefreshTokenOutcome(t).err = Nil
           => RefreshTokenOutcome(t).out.AccessToken.claims.Role = CurrentRole(t)

\* A request with an access token issued to a cashier, since promoted, has
\* just been let through to a route for managers, and the refresh token handed
\* out with it mints an access token of the new role
C29_Witness ==
    /\ last.op = "Request"
    /\ last.out = CallsNext
    /\ last.args.requiredRole = RoleManager
    /\ last.args.token.claims.Role = RoleCashier
    /\ last.args.now = now
    /\ \E rt \in IssuedWith(last.args.token) :
          /\ RefreshTokenOutcome(rt).err = Nil
          /\ RefreshTokenOutcome(rt).out.AccessToken.claims.Role # RoleCashier

----------------------------------------------------------------------------
\* The two role checks

\* C30: for every pair of role values, of the closed set or not,
\* ValidateRole(held, required) succeeds iff User{Role: held}.CanAccessResource(
\* required) is true, and neither grants access for a required role that is
\* not CASHIER, MANAGER or ADMIN.
C30_RoleChecksAgree ==
    last.op = "CanAccessResource" =>
        /\ last.out <=> ValidateRole(last.args.role, last.args.requiredRole) = Nil
        /\ last.args.requiredRole \notin Roles =>
              /\ ~last.out
              /\ ValidateRole(last.args.role, last.args.requiredRole) # Nil

====
